---- MODULE Spec2Model ----
(***************************************************************************)
(* Verification model of the PDTM inference engine (wookooner).            *)
(*                                                                         *)
(*  Part A  Evidence/Confidence accumulator   src/utils/confidence.js      *)
(*  Part B  Session graph store and GC        src/storage/session_gc.js    *)
(*  Part C  Service-worker update queue       src/unnamed/part_000         *)
(*  Part D  Round-trip detector               src/utils/roundtrip.js       *)
(*  Part E  Management-state mapper           src/risk/state_mapper.js     *)
(*  Part F  Risk calculation job              src/jobs/risk_job.js         *)
(*  Part G  Session store, call by call       src/storage/session_gc.js    *)
(*  Part H  Base heuristic                    src/signals/heuristics.js    *)
(*  Part I  Classifier job                    src/jobs/classifier_job.js   *)
(*  Part J  Activity state repository         src/unnamed/part_005         *)
(*  Part K  Units on the durable store        src/unnamed/part_000         *)
(*                                                                         *)
(* Confidence values are fixed-point hundredths: One = 1.0.                *)
(***************************************************************************)
EXTENDS Integers, Sequences, FiniteSets, TLC

VARIABLES
  confState,   \* the accumulator {score, evidenceSet, auxScore}
  confCall,    \* the last accumulator call and its arguments
  confOut,     \* the last result of finalizeConfidence
  tabGraph,    \* chrome.storage.session 'session:tabGraph'
  tempGraph,   \* chrome.storage.session 'session:temporalGraph'
  now,         \* Date.now()
  ops,         \* number of store operations and clock advances so far
  hist,        \* per context: the events recorded since the context was created
  lastOp,      \* the last store operation and its arguments
  queue,       \* units chained on updateQueue that have not started, oldest first
  running,     \* the started, unfinished units, by id, each at its next storage call
  chain,       \* state of the promise updateQueue once the started units settle
  gc,          \* the unqueued cleanup in flight (tabs.onRemoved, runtime.onStartup)
  nextId,      \* units enqueued so far
  gcCount,     \* cleanups invoked so far
  status,      \* per unit id: queued, running, done, failed or skipped
  opLog,       \* ids of the queued units, one per storage call served, in order
  rtEvents,    \* the events handed to isRoundtrip, in arrival order
  rtOut,       \* the last result of isRoundtrip
  msIn,        \* the argument of mapToManagementState
  msOut,       \* the last result of mapToManagementState
  riskIn,      \* what the risk job reads for its domain: activity, stats, override
  riskOut,     \* the risk record of the domain
  walk,        \* one resolveContextId walk: graph, current tab, visited set, result
  opIn,        \* the tab graph and the arguments of one recordTabOpener call
  opOut,       \* the tab graph recordTabOpener wrote
  sigIn,       \* the signal codes handed to evaluateSignals, in order
  sigOut,      \* the last result of evaluateSignals
  clsIn,       \* the arguments of classify and what its collaborators answer
  clsOut,      \* the last result of classify
  actMap,      \* chrome.storage.local 'pdtm_activity_state_v1', by domain
  actN,        \* calls of updateActivityState so far
  actIn,       \* the arguments of the last call of updateActivityState
  local,       \* chrome.storage.local: events, settings, domain state, risk
               \* state, user overrides, retention policy
  clock,       \* Date.now() of the service worker
  wRun,        \* started units of the durable-store model, by id, with the
               \* data their first read returned
  wN,          \* units of the durable-store model started so far
  wTicks,      \* clock advances so far
  unit         \* the unit that returned last: what it did

confVars == <<confState, confCall, confOut>>
storeVars == <<tabGraph, tempGraph, now, ops, hist, lastOp>>
queueVars == <<queue, running, chain, gc, nextId, gcCount, status, opLog>>
workerVars == <<local, clock, wRun, wN, wTicks, unit>>
svcVars == <<actMap, actN, actIn, workerVars>>
callVars == <<riskIn, riskOut, walk, opIn, opOut, sigIn, sigOut, clsIn, clsOut,
              svcVars>>
fnVars == <<rtEvents, rtOut, msIn, msOut, callVars>>

vars == <<confState, confCall, confOut, tabGraph, tempGraph, now, ops, hist, lastOp,
          queue, running, chain, gc, nextId, gcCount, status, opLog,
          rtEvents, rtOut, msIn, msOut,
          riskIn, riskOut, walk, opIn, opOut, sigIn, sigOut, clsIn, clsOut,
          actMap, actN, actIn, local, clock, wRun, wN, wTicks, unit>>

Min(a, b) == IF a < b THEN a ELSE b
Max(a, b) == IF a > b THEN a ELSE b

\* A storage key that was never written reads as {} (data[KEY] || {}).
EmptyMap == [x \in {} |-> 0]
Put(f, k, v) == [x \in DOMAIN f \cup {k} |-> IF x = k THEN v ELSE f[x]]
Del(f, ks) == [x \in DOMAIN f \ ks |-> f[x]]

NoOp == [op |-> "none", tab |-> 0, wrote |-> FALSE, rejected |-> FALSE]
NoGc == [kind |-> "none"]

\* The parts of the state a specification does not exercise stay here.
ConfIdle ==
  /\ confState = [score |-> 0, evidenceSet |-> {}, auxScore |-> 0]
  /\ confCall = [op |-> "new", kind |-> "none", weight |-> 0]
  /\ confOut = [confidence |-> 0, evidenceFlags |-> {}]

StoreIdle ==
  /\ tabGraph = EmptyMap
  /\ tempGraph = EmptyMap
  /\ now = 0
  /\ ops = 0
  /\ hist = EmptyMap
  /\ lastOp = NoOp

QueueIdle ==
  /\ queue = <<>>
  /\ running = EmptyMap
  /\ chain = "fulfilled"
  /\ gc = NoGc
  /\ nextId = 0
  /\ gcCount = 0
  /\ status = EmptyMap
  /\ opLog = <<>>

NoMapInput ==
  [level |-> "view", score |-> 0, confidence |-> 0, rp_domain |-> "",
   evidenceFlags |-> {}, seenCount |-> 0, isPinned |-> FALSE]

\* No risk record yet.
NoRiskRecord == [score |-> 0, confidence |-> "unset", reasons |-> <<>>]
Written(rec) == rec.confidence # "unset"

RiskIdle == riskIn = "unset" /\ riskOut = NoRiskRecord
WalkIdle == walk = "unset"
OpenerIdle == opIn = "unset" /\ opOut = "unset"
SignalIdle == sigIn = <<>> /\ sigOut = "unset"
ClassifyIdle == clsIn = "unset" /\ clsOut = "unset"

NoActivityCall == [domain |-> "", level |-> "view", timestamp |-> 0]
ActivityIdle == actMap = EmptyMap /\ actN = 0 /\ actIn = NoActivityCall

\* DEFAULTS: the durable buckets after install or reset.
DefaultLocal ==
  [events |-> <<>>,
   collectionEnabled |-> TRUE,
   domainState |-> EmptyMap,
   risk |-> EmptyMap,
   overrides |-> EmptyMap,
   policy |-> [raw_events_ttl_days |-> 30, prune_inactive_domains_days |-> 180,
               last_cleanup_ts |-> 0]]
NoUnit ==
  [id |-> 0, kind |-> "none", domain |-> "", outcome |-> "none", visitCount |-> 0,
   ts |-> 0]
WorkerIdle ==
  /\ local = DefaultLocal
  /\ clock = 0
  /\ wRun = EmptyMap
  /\ wN = 0
  /\ wTicks = 0
  /\ unit = NoUnit

SvcIdle == ActivityIdle /\ WorkerIdle

CallIdle ==
  RiskIdle /\ WalkIdle /\ OpenerIdle /\ SignalIdle /\ ClassifyIdle /\ SvcIdle

FnIdle ==
  /\ rtEvents = <<>>
  /\ rtOut = FALSE
  /\ msIn = NoMapInput
  /\ msOut = "unset"
  /\ CallIdle

(***************************************************************************)
(* Part A: Evidence/Confidence accumulator                                 *)
(***************************************************************************)

\* EVIDENCE_TYPES, the closed vocabulary.
EVIDENCE_TYPES ==
  { "redirect_uri_match", "strong_path", "known_idp", "saml_form",
    "oauth_params", "opener_link", "temporal_chain", "transition_qualifiers" }

TRANSITION_QUALIFIERS == "transition_qualifiers"

\* strongTypes of finalizeConfidence.
strongTypes ==
  { "redirect_uri_match", "strong_path", "opener_link", "temporal_chain" }

\* 1.0 in hundredths.
One == 100

\* AUX_CONSTANTS.MAX_BONUS (0.1) and CAP_WITHOUT_STRONG_EVIDENCE (0.6).
MAX_BONUS == 10
CAP_WITHOUT_STRONG_EVIDENCE == 60

\* Weights offered to add_evidence: values of [0,1] in hundredths.
Weights == {0, 8, 60}

clamp01_NoUpper(x) == Max(0, x)

clamp01(x) == Max(0, Min(One, x))

createConfidenceState == [score |-> 0, evidenceSet |-> {}, auxScore |-> 0]

addEvidenceOnce_NoCap(state, evidenceType, weight) ==
  IF evidenceType = TRANSITION_QUALIFIERS
    THEN [state EXCEPT
            !.auxScore = state.auxScore + weight,
            !.evidenceSet = state.evidenceSet \cup {evidenceType}]
    ELSE IF evidenceType \notin state.evidenceSet
           THEN [state EXCEPT !.evidenceSet = state.evidenceSet \cup {evidenceType},
                              !.score = state.score + weight]
           ELSE state

addEvidenceOnce_NoDedupe(state, evidenceType, weight) ==
  IF evidenceType = TRANSITION_QUALIFIERS
    THEN [state EXCEPT
            !.auxScore = IF state.auxScore < MAX_BONUS
                           THEN Min(state.auxScore + weight, MAX_BONUS)
                           ELSE state.auxScore,
            !.evidenceSet = state.evidenceSet \cup {evidenceType}]
    ELSE [state EXCEPT !.evidenceSet = state.evidenceSet \cup {evidenceType},
                       !.score = state.score + weight]

addEvidenceOnce(state, evidenceType, weight) ==
  IF evidenceType = TRANSITION_QUALIFIERS
    THEN [state EXCEPT
            !.auxScore = IF state.auxScore < MAX_BONUS
                           THEN Min(state.auxScore + weight, MAX_BONUS)
                           ELSE state.auxScore,
            !.evidenceSet = state.evidenceSet \cup {evidenceType}]
    ELSE IF evidenceType \notin state.evidenceSet
           THEN [state EXCEPT !.evidenceSet = state.evidenceSet \cup {evidenceType},
                              !.score = state.score + weight]
           ELSE state

finalizeConfidence(state) ==
  LET finalScore == state.score + state.auxScore
      hasStrong  == \E t \in strongTypes : t \in state.evidenceSet
      guarded    == IF ~hasStrong /\ state.auxScore > 0
                      THEN Min(finalScore, CAP_WITHOUT_STRONG_EVIDENCE)
                      ELSE finalScore
  IN  [confidence |-> clamp01(guarded), evidenceFlags |-> state.evidenceSet]

NoOut  == [confidence |-> 0, evidenceFlags |-> {}]

ConfInit ==
  /\ confState = createConfidenceState
  /\ confCall = [op |-> "new", kind |-> "none", weight |-> 0]
  /\ confOut = NoOut
  /\ StoreIdle
  /\ QueueIdle
  /\ FnIdle

\* new_state(): a fresh accumulator per classification call.
ConfNew ==
  /\ UNCHANGED <<storeVars, queueVars, fnVars>>
  /\ confCall.op = "finalize"
  /\ confState' = createConfidenceState
  /\ confCall' = [op |-> "new", kind |-> "none", weight |-> 0]
  /\ confOut' = NoOut

\* add_evidence(state, kind, weight)
ConfAdd ==
  /\ UNCHANGED <<storeVars, queueVars, fnVars>>
  /\ confCall.op \in {"new", "add"}
  /\ \E k \in EVIDENCE_TYPES, w \in Weights :
       /\ confState' = addEvidenceOnce(confState, k, w)
       /\ confCall' = [op |-> "add", kind |-> k, weight |-> w]
  /\ UNCHANGED confOut

\* finalize(state): once per state.
ConfFinalize ==
  /\ UNCHANGED <<storeVars, queueVars, fnVars>>
  /\ confCall.op \in {"new", "add"}
  /\ confOut' = finalizeConfidence(confState)
  /\ confCall' = [op |-> "finalize", kind |-> "none", weight |-> 0]
  /\ UNCHANGED confState

ConfNext == ConfNew \/ ConfAdd \/ ConfFinalize

SpecConf == ConfInit /\ [][ConfNext]_vars

----------------------------------------------------------------------------
(* Claims on the accumulator *)

\* C9: for every sequence of add_evidence calls on a fresh state, finalize
\* returns a confidence in the closed interval [0,1].
C9_ConfidenceInUnitInterval ==
  confCall.op = "finalize" => (0 <= confOut.confidence /\ confOut.confidence <= One)

\* C9 witness: a finalized state whose raw sum exceeds 1.0 and was clamped.
C9_Witness ==
  /\ confCall.op = "finalize"
  /\ confState.score + confState.auxScore > One
  /\ confOut.confidence = One

\* C10: add_evidence with a non-weak kind already in the evidence set leaves
\* the strong sum, the weak sum and the evidence set unchanged, whatever the
\* weight, so finalize yields the same confidence as before the second add.
C10_StrongDedup ==
  [][ ( /\ confCall'.op = "add"
        /\ confCall.op \in {"new", "add"}
        /\ confCall'.kind # TRANSITION_QUALIFIERS
        /\ confCall'.kind \in confState.evidenceSet )
      => ( /\ confState'.score = confState.score
           /\ confState'.auxScore = confState.auxScore
           /\ confState'.evidenceSet = confState.evidenceSet
           /\ finalizeConfidence(confState').confidence
                = finalizeConfidence(confState).confidence ) ]_vars

\* C10 witness: a strong kind was re-added with a positive weight different
\* from the sum it first contributed, and the strong sum did not move.
C10_Witness ==
  /\ confCall.op = "add"
  /\ confCall.kind = "redirect_uri_match"
  /\ confCall.weight = 8
  /\ confState.evidenceSet = {"redirect_uri_match"}
  /\ confState.score = 60

\* C11: when weak-qualifier evidence has been added and no strong kind is in
\* the evidence set, finalize never returns more than the safety ceiling.
C11_WeakWithoutStrongCapped ==
  ( /\ confCall.op = "finalize"
    /\ TRANSITION_QUALIFIERS \in confState.evidenceSet
    /\ confState.evidenceSet \cap strongTypes = {} )
  => confOut.confidence <= CAP_WITHOUT_STRONG_EVIDENCE

\* C12: for every state whose evidence set holds none of the four strong
\* kinds, finalize returns at most the safety ceiling, weak evidence or not.
C12_NoStrongCapped ==
  ( /\ confCall.op = "finalize"
    /\ confState.evidenceSet \cap strongTypes = {} )
  => confOut.confidence <= CAP_WITHOUT_STRONG_EVIDENCE

\* C13: for a state to which only weak-qualifier evidence was added,
\* finalize returns the confidence of a fresh state.
C13_WeakAloneCountsNothing ==
  ( /\ confCall.op = "finalize"
    /\ confState.evidenceSet = {TRANSITION_QUALIFIERS} )
  => confOut.confidence = finalizeConfidence(createConfidenceState).confidence

\* C14: after every add_evidence call the weak sum lies in [0, 0.1]; a
\* weak-qualifier addition adds its weight, clamped to 0.1, and leaves the
\* strong sum unchanged.
C14_WeakSumClamped ==
  [][ ( /\ confCall'.op = "add"
        /\ confCall.op \in {"new", "add"} )
      => ( /\ 0 <= confState'.auxScore
           /\ confState'.auxScore <= MAX_BONUS
           /\ confCall'.kind = TRANSITION_QUALIFIERS
                => ( /\ confState'.auxScore
                          = Min(confState.auxScore + confCall'.weight, MAX_BONUS)
                     /\ confState'.score = confState.score ) ) ]_vars

\* C14 witness: 0.08 + 0.08 gave 0.1, beside a positive strong sum.
C14_Witness ==
  /\ confCall.op = "add"
  /\ confCall.kind = TRANSITION_QUALIFIERS
  /\ confCall.weight = 8
  /\ confState.auxScore = MAX_BONUS
  /\ confState.score = 60

(***************************************************************************)
(* Part B: Session graph store and session GC                              *)
(*                                                                         *)
(* The per-context event cap and the context capacity are the source's     *)
(* MAX_EVENTS_PER_CONTEXT = 20 and MAX_CONTEXTS = 200 scaled down; the TTLs *)
(* keep their source values, and the clock advances in steps that reach    *)
(* both sides of each TTL.                                                 *)
(***************************************************************************)

MAX_EVENTS_PER_CONTEXT == 2
MAX_CONTEXTS == 1
TTL_MS == 60000
TAB_TTL == 3600000

\* One tab more than the capacity, so that the capacity can be exceeded.
MaxTabs == MAX_CONTEXTS + 1
Tabs == 1..MaxTabs
\* node.openerTabId of a node that has none (undefined).
NoTab == 0

\* Store operations and clock advances in one behaviour.
MaxOps == 4
\* The clock advances by 1 ms, by the context TTL or by the tab TTL.
TickSteps == {1, TTL_MS, TAB_TTL}

\* URLs: scheme, host labels, and the rest (path, query, fragment).
NoUrl == [scheme |-> "", host |-> <<>>, rest |-> ""]
GoodUrl == [scheme |-> "https", host |-> <<"www", "rp", "com">>, rest |-> "/login?next=1"]
BadUrl == [scheme |-> "chrome", host |-> <<"newtab">>, rest |-> ""]
StoreUrls == {GoodUrl, BadUrl}
\* The same page address with another path, query and fragment.
GoodUrlOtherPath ==
  [scheme |-> "https", host |-> <<"www", "rp", "com">>,
   rest |-> "/account/orders?user=alice#latest"]
\* What record_event is called with: NoUrl is the empty or unparseable
\* string, BadUrl a URL of another scheme.
EventUrls == {GoodUrl, GoodUrlOtherPath, BadUrl, NoUrl}
\* The URLs that are no page address: empty or unparseable, or of a scheme
\* other than http and https.
Rejected(url) == url = NoUrl \/ url.scheme \notin {"http", "https"}
StoreKinds == {"committed", "completed"}

NoDomain == <<>>
NumericLabels == {"0", "1", "10", "127", "192", "168"}

getDomain_AnyScheme(url) ==
  IF url = NoUrl THEN NoDomain ELSE url.host

getDomain_WithPath(url) ==
  IF url = NoUrl THEN NoDomain
  ELSE IF url.scheme \notin {"http", "https"} THEN NoDomain
  ELSE Append(url.host, url.rest)

\* getDomain: null unless the URL parses and is http/https.
getDomain(url) ==
  IF url = NoUrl THEN NoDomain
  ELSE IF url.scheme \notin {"http", "https"} THEN NoDomain
  ELSE url.host

\* getETLDPlusOne: strips one leading www/m/mobile label of a host of more
\* than two labels; an all-numeric host (IP) is returned as is.
getETLDPlusOne(hostname) ==
  IF hostname = NoDomain THEN NoDomain
  ELSE IF \A i \in 1..Len(hostname) : hostname[i] \in NumericLabels THEN hostname
  ELSE IF Len(hostname) > 2 /\ hostname[1] \in {"www", "m", "mobile"} THEN Tail(hostname)
  ELSE hostname

RECURSIVE resolveContextId(_, _, _)
resolveContextId(tabId, graph, visited) ==
  IF tabId \in visited THEN tabId
  ELSE IF tabId \notin DOMAIN graph THEN tabId
  ELSE IF graph[tabId].openerTabId = NoTab THEN tabId
  ELSE resolveContextId(graph[tabId].openerTabId, graph, visited \cup {tabId})

recordTabOpener_AlwaysOverwrite(graph, targetTabId, sourceTabId, overwrite, t) ==
  LET g1 == Put(graph, targetTabId,
                [openerTabId |-> sourceTabId,
                 createdAt |-> IF targetTabId \in DOMAIN graph
                                 THEN graph[targetTabId].createdAt ELSE t,
                 lastSeenAt |-> t])
  IN  IF sourceTabId \in DOMAIN g1
        THEN [g1 EXCEPT ![sourceTabId].lastSeenAt = t]
        ELSE Put(g1, sourceTabId,
                 [openerTabId |-> NoTab, createdAt |-> t, lastSeenAt |-> t])

\* recordTabOpener: the graph written back.
recordTabOpener(graph, targetTabId, sourceTabId, overwrite, t) ==
  LET g1 == IF targetTabId \notin DOMAIN graph
              THEN Put(graph, targetTabId,
                       [openerTabId |-> sourceTabId, createdAt |-> t, lastSeenAt |-> t])
              ELSE [graph EXCEPT ![targetTabId] =
                      [@ EXCEPT !.openerTabId =
                                   IF overwrite \/ @ = NoTab THEN sourceTabId ELSE @,
                                !.lastSeenAt = t]]
  IN  IF sourceTabId \in DOMAIN g1
        THEN [g1 EXCEPT ![sourceTabId].lastSeenAt = t]
        ELSE Put(g1, sourceTabId,
                 [openerTabId |-> NoTab, createdAt |-> t, lastSeenAt |-> t])

\* The last n elements of s: events.slice(events.length - n).
LastN(s, n) == IF Len(s) > n THEN SubSeq(s, Len(s) - n + 1, Len(s)) ELSE s

ringBuffer_KeepOldest(events, newEvent) ==
  LET all == Append(events, newEvent)
  IN  IF Len(all) > MAX_EVENTS_PER_CONTEXT
        THEN SubSeq(all, 1, MAX_EVENTS_PER_CONTEXT) ELSE all

\* Ring buffer of recordTemporalEvent.
ringBuffer(events, newEvent) ==
  LET all == Append(events, newEvent)
  IN  IF Len(all) > MAX_EVENTS_PER_CONTEXT
        THEN SubSeq(all, Len(all) - MAX_EVENTS_PER_CONTEXT + 1, Len(all)) ELSE all

\* recordTemporalEvent on the graphs it read: what it writes back, the
\* context it resolved and the event it built; wrote = FALSE on the early
\* returns, which write nothing.
recordTemporalEvent(tg, cg, tabId, url, kind, t) ==
  LET domain == getETLDPlusOne(getDomain(url))
  IN  IF getDomain(url) = NoDomain \/ domain = NoDomain
        THEN [wrote |-> FALSE, tab |-> tg, temp |-> cg, ctx |-> NoTab, ev |-> <<>>]
        ELSE
          LET tg1 == IF tabId \notin DOMAIN tg
                       THEN Put(tg, tabId,
                                [openerTabId |-> NoTab, createdAt |-> t, lastSeenAt |-> t])
                       ELSE [tg EXCEPT ![tabId].lastSeenAt = t]
              contextId == resolveContextId(tabId, tg1, {})
              contextData == IF contextId \in DOMAIN cg
                               THEN cg[contextId]
                               ELSE [events |-> <<>>, updatedAt |-> 0]
              newEvent == [ts |-> t, domain |-> domain, tabId |-> tabId,
                           openerTabId |-> tg1[tabId].openerTabId, kind |-> kind]
          IN  [wrote |-> TRUE, tab |-> tg1,
               temp |-> Put(cg, contextId,
                            [events |-> ringBuffer(contextData.events, newEvent),
                             updatedAt |-> t]),
               ctx |-> contextId, ev |-> newEvent]

ttlExpired_Inclusive(entry, t) == t - entry.updatedAt >= TTL_MS

\* Step 1 of pruneExpiredSessionData: the TTL test.
ttlExpired(entry, t) == t - entry.updatedAt > TTL_MS

capacityVictims_NewestFirst(cg) ==
  LET ids == DOMAIN cg
      before(a, b) == \/ cg[a].updatedAt > cg[b].updatedAt
                      \/ (cg[a].updatedAt = cg[b].updatedAt /\ a < b)
      rank(a) == Cardinality({b \in ids : before(b, a)})
  IN  IF Cardinality(ids) > MAX_CONTEXTS
        THEN {a \in ids : rank(a) < Cardinality(ids) - MAX_CONTEXTS}
        ELSE {}

capacityVictims_None(cg) == {}

\* Step 2 of pruneExpiredSessionData: the ids it deletes. Object.keys lists
\* integer-like keys in ascending order and Array.prototype.sort is stable,
\* so ties in updatedAt keep the ascending id order.
capacityVictims(cg) ==
  LET ids == DOMAIN cg
      before(a, b) == \/ cg[a].updatedAt < cg[b].updatedAt
                      \/ (cg[a].updatedAt = cg[b].updatedAt /\ a < b)
      rank(a) == Cardinality({b \in ids : before(b, a)})
  IN  IF Cardinality(ids) > MAX_CONTEXTS
        THEN {a \in ids : rank(a) < Cardinality(ids) - MAX_CONTEXTS}
        ELSE {}

\* pruneExpiredSessionData on the graphs it read: the graphs it would write
\* and whether it writes (changed).
pruneExpiredSessionData(tg, cg, t) ==
  LET expired == {c \in DOMAIN cg : ttlExpired(cg[c], t)}
      cg1 == Del(cg, expired)
      victims == capacityVictims(cg1)
      cg2 == Del(cg1, victims)
      stale == {x \in DOMAIN tg : t - tg[x].lastSeenAt > TAB_TTL}
      tg1 == Del(tg, stale)
  IN  [changed |-> (expired # {}) \/ (Cardinality(DOMAIN cg1) > MAX_CONTEXTS) \/ (stale # {}),
       tab |-> tg1, temp |-> cg2]

handleTabRemoval_DropContexts(tg, cg, tabId, t) ==
  LET tg1 == Del(tg, {tabId})
      cgx == Del(cg, {c \in DOMAIN cg :
                        \E i \in 1..Len(cg[c].events) : cg[c].events[i].tabId = tabId})
      p == pruneExpiredSessionData(tg1, cgx, t)
  IN  [tab |-> p.tab, temp |-> p.temp]

\* handleTabRemoval run without interference: the store it leaves.
handleTabRemoval(tg, cg, tabId, t) ==
  LET tg1 == IF tabId \in DOMAIN tg THEN Del(tg, {tabId}) ELSE tg
      p == pruneExpiredSessionData(tg1, cg, t)
  IN  IF p.changed THEN [tab |-> p.tab, temp |-> p.temp]
                   ELSE [tab |-> tg1, temp |-> cg]

\* hist follows the temporal graph: a deleted context forgets its history.
HistAfter(h, cg) == [c \in DOMAIN cg |-> IF c \in DOMAIN h THEN h[c] ELSE <<>>]

StoreInit == ConfIdle /\ StoreIdle /\ QueueIdle /\ FnIdle

\* record_event(tab_id, url, kind)
RecordEvent ==
  /\ ops < MaxOps
  /\ UNCHANGED <<confVars, queueVars, fnVars>>
  /\ ops' = ops + 1
  /\ UNCHANGED now
  /\ \E tabId \in Tabs, url \in EventUrls, kind \in StoreKinds :
    LET r == recordTemporalEvent(tabGraph, tempGraph, tabId, url, kind, now)
    IN  /\ tabGraph' = r.tab
        /\ tempGraph' = r.temp
        /\ hist' = IF r.wrote
                     THEN Put(hist, r.ctx,
                              Append(IF r.ctx \in DOMAIN tempGraph THEN hist[r.ctx] ELSE <<>>,
                                     r.ev))
                     ELSE hist
        /\ lastOp' = [op |-> "recordEvent", tab |-> tabId, wrote |-> r.wrote,
                      rejected |-> Rejected(url)]

\* record_opener(target_tab, source_tab, overwrite)
RecordOpener ==
  /\ ops < MaxOps
  /\ UNCHANGED <<confVars, queueVars, fnVars>>
  /\ ops' = ops + 1
  /\ \E target \in Tabs, source \in Tabs, overwrite \in BOOLEAN :
    /\ target # source
    /\ tabGraph' = recordTabOpener(tabGraph, target, source, overwrite, now)
    /\ lastOp' = [op |-> "recordOpener", tab |-> target, wrote |-> TRUE,
                  rejected |-> FALSE]
  /\ UNCHANGED <<tempGraph, hist, now>>

\* prune()
Prune ==
  /\ ops < MaxOps
  /\ UNCHANGED <<confVars, queueVars, fnVars>>
  /\ ops' = ops + 1
  /\ UNCHANGED now
  /\ LET p == pruneExpiredSessionData(tabGraph, tempGraph, now)
     IN  /\ tabGraph' = IF p.changed THEN p.tab ELSE tabGraph
         /\ tempGraph' = IF p.changed THEN p.temp ELSE tempGraph
         /\ hist' = HistAfter(hist, tempGraph')
         /\ lastOp' = [op |-> "prune", tab |-> NoTab, wrote |-> p.changed,
                       rejected |-> FALSE]

\* tab close: handleTabRemoval(tabId)
TabRemoved ==
  /\ ops < MaxOps
  /\ UNCHANGED <<confVars, queueVars, fnVars>>
  /\ ops' = ops + 1
  /\ UNCHANGED now
  /\ \E tabId \in Tabs :
    LET r == handleTabRemoval(tabGraph, tempGraph, tabId, now)
    IN  /\ tabGraph' = r.tab
        /\ tempGraph' = r.temp
        /\ hist' = HistAfter(hist, tempGraph')
        /\ lastOp' = [op |-> "tabRemoved", tab |-> tabId, wrote |-> TRUE,
                      rejected |-> FALSE]

\* The clock advances.
Tick ==
  /\ ops < MaxOps
  /\ UNCHANGED <<confVars, queueVars, fnVars>>
  /\ ops' = ops + 1
  /\ \E d \in TickSteps : now' = now + d
  /\ lastOp' = NoOp
  /\ UNCHANGED <<tabGraph, tempGraph, hist>>

StoreNext == RecordEvent \/ RecordOpener \/ Prune \/ TabRemoved \/ Tick

Spec == StoreInit /\ [][StoreNext]_vars


----------------------------------------------------------------------------
(* Claims on the session graph store *)

NumContexts(cg) == Cardinality(DOMAIN cg)
\* Contexts of cg the TTL rule keeps at time t.
Fresh(cg, t) == {c \in DOMAIN cg : t - cg[c].updatedAt <= TTL_MS}
IsPruneStep(op) == op \in {"prune", "tabRemoved"}

\* C4: every context holds at most MAX_EVENTS_PER_CONTEXT events; once more
\* than that many were recorded into it, it holds exactly that many, and they
\* are the most recently recorded ones in recording order.
C4_RingBufferKeepsNewest ==
  \A c \in DOMAIN tempGraph :
    /\ Len(tempGraph[c].events) <= MAX_EVENTS_PER_CONTEXT
    /\ Len(hist[c]) > MAX_EVENTS_PER_CONTEXT
         => Len(tempGraph[c].events) = MAX_EVENTS_PER_CONTEXT
    /\ tempGraph[c].events = LastN(hist[c], MAX_EVENTS_PER_CONTEXT)

\* C4 witness: a record_event overflowed a context whose oldest recorded
\* event differs from its newest.
C4_Witness ==
  /\ lastOp.op = "recordEvent"
  /\ lastOp.wrote
  /\ \E c \in DOMAIN tempGraph :
       /\ Len(hist[c]) > MAX_EVENTS_PER_CONTEXT
       /\ hist[c][1] # hist[c][Len(hist[c])]
       /\ hist[c][1] # tempGraph[c].events[1]

\* C5: right after a prune at time now no context is older than the TTL, and
\* a context whose age is at most the TTL is not removed by the TTL step
\* (when the contexts within the TTL fit the capacity, all of them stay,
\* unchanged).
C5_PruneTtl ==
  [][ IsPruneStep(lastOp'.op) =>
        /\ \A c \in DOMAIN tempGraph' : now' - tempGraph'[c].updatedAt <= TTL_MS
        /\ Cardinality(Fresh(tempGraph, now)) <= MAX_CONTEXTS
             => \A c \in Fresh(tempGraph, now) :
                  c \in DOMAIN tempGraph' /\ tempGraph'[c] = tempGraph[c] ]_vars

\* C5 witness: a prune one millisecond past the TTL removed the only context.
C5_Witness ==
  /\ lastOp.op = "prune"
  /\ lastOp.wrote
  /\ now = TTL_MS + 1
  /\ tabGraph # EmptyMap
  /\ tempGraph = EmptyMap

\* C6: after a prune the live contexts number at most the capacity, the
\* capacity step evicts no more than needed, and every context it evicts is at
\* least as old (updatedAt) as every context that survives.
C6_PruneCapacityOldestFirst ==
  [][ IsPruneStep(lastOp'.op) =>
        /\ NumContexts(tempGraph') <= MAX_CONTEXTS
        /\ NumContexts(tempGraph') =
             Min(Cardinality(Fresh(tempGraph, now)), MAX_CONTEXTS)
        /\ \A e \in Fresh(tempGraph, now) \ DOMAIN tempGraph' :
             \A s \in DOMAIN tempGraph' :
               tempGraph[e].updatedAt <= tempGraph[s].updatedAt ]_vars

\* C6 witness: a prune within the TTL of every context evicted by capacity,
\* and the tab of an evicted context was last seen before a survivor's update.
C6_Witness ==
  /\ lastOp.op = "prune"
  /\ lastOp.wrote
  /\ now <= TTL_MS
  /\ NumContexts(tempGraph) = MAX_CONTEXTS
  /\ \E t \in DOMAIN tabGraph \ DOMAIN tempGraph : \E c \in DOMAIN tempGraph :
       tabGraph[t].lastSeenAt < tempGraph[c].updatedAt

\* C7 as stated: in every reachable state the live contexts number at most
\* the capacity.
C7_AlwaysWithinCapacity == NumContexts(tempGraph) <= MAX_CONTEXTS

\* C7 amended: the capacity is enforced by prune only. Every prune (also the
\* one run by tab removal) leaves at most the capacity; record_event adds at
\* most one context and never evicts; no other operation adds a context.
C7_CapacityEnforcedAtPrune ==
  [][ /\ IsPruneStep(lastOp'.op) => NumContexts(tempGraph') <= MAX_CONTEXTS
      /\ lastOp'.op = "recordEvent" =>
           /\ NumContexts(tempGraph') <= NumContexts(tempGraph) + 1
           /\ DOMAIN tempGraph \subseteq DOMAIN tempGraph'
      /\ lastOp'.op \notin {"recordEvent"} =>
           DOMAIN tempGraph' \subseteq DOMAIN tempGraph ]_vars

\* C7 witness: record_event took the store over the capacity.
C7_Witness ==
  /\ lastOp.op = "recordEvent"
  /\ NumContexts(tempGraph) > MAX_CONTEXTS

\* What tab removal does to the temporal graph: it deletes only contexts the
\* TTL or the capacity rule deletes, and leaves every other context as it was.
RemovalKeepsContexts ==
  /\ \A c \in DOMAIN tempGraph' : c \in DOMAIN tempGraph /\ tempGraph'[c] = tempGraph[c]
  /\ Cardinality(Fresh(tempGraph, now)) <= MAX_CONTEXTS
       => \A c \in Fresh(tempGraph, now) : c \in DOMAIN tempGraph'
  /\ \A c \in DOMAIN tempGraph \ DOMAIN tempGraph' :
       \/ now - tempGraph[c].updatedAt > TTL_MS
       \/ Cardinality(Fresh(tempGraph, now)) > MAX_CONTEXTS

\* C8 as stated: handleTabRemoval(t) removes only the tab node of t, and only
\* contexts that the TTL or capacity rule would remove.
C8_RemovesOnlyClosedTabNode ==
  [][ lastOp'.op = "tabRemoved" =>
        /\ lastOp'.tab \notin DOMAIN tabGraph'
        /\ DOMAIN tabGraph \ DOMAIN tabGraph' \subseteq {lastOp'.tab}
        /\ RemovalKeepsContexts ]_vars

\* C8 amended: handleTabRemoval(t) removes the tab node of t and, through the
\* prune it runs, the tab nodes unseen for longer than the tab TTL; the other
\* nodes are untouched; contexts go only by the TTL or capacity rule, and a
\* context within TTL and capacity keeps all its events.
C8_RemovalIsTimeAndCapacityDriven ==
  [][ lastOp'.op = "tabRemoved" =>
        /\ lastOp'.tab \notin DOMAIN tabGraph'
        /\ \A x \in DOMAIN tabGraph \ DOMAIN tabGraph' :
             x = lastOp'.tab \/ now - tabGraph[x].lastSeenAt > TAB_TTL
        /\ \A x \in DOMAIN tabGraph' : x \in DOMAIN tabGraph /\ tabGraph'[x] = tabGraph[x]
        /\ RemovalKeepsContexts ]_vars

\* C8 witness: the closed tab's node is gone and a live context still holds
\* an event that tab recorded.
C8_Witness ==
  /\ lastOp.op = "tabRemoved"
  /\ lastOp.tab \notin DOMAIN tabGraph
  /\ \E c \in DOMAIN tempGraph : \E i \in 1..Len(tempGraph[c].events) :
       tempGraph[c].events[i].tabId = lastOp.tab

(***************************************************************************)
(* Part C: the update queue of the service worker                          *)
(*                                                                         *)
(* Every listener that mutates storage chains its work on updateQueue:     *)
(*   updateQueue = updateQueue.then(async () => {...}).catch(log)          *)
(* tabs.onRemoved and runtime.onStartup call the session GC directly.      *)
(* A unit or cleanup is suspended at each awaited call; one step of the    *)
(* model serves one awaited call. chrome.storage.local content is not part *)
(* of this model: its calls are suspension points only. The clock stands   *)
(* still here.                                                             *)
(***************************************************************************)

MaxUnits == 2
MaxGc == 1
QueueTabs == {1, 2}

\* recordTemporalEvent returns before any storage call on a bad URL.
RecSteps(url) ==
  IF getETLDPlusOne(getDomain(url)) = NoDomain THEN <<>> ELSE <<"rec.get", "rec.set">>

\* pruneExpiredSessionData: get, then set if changed.
GcSteps == <<"gc.get", "gc.set">>

\* The awaited calls of the onCompleted unit after the session part.
CompletedTail ==
  <<"local.get", "local.set", "updateDomainState", "classify",
    "updateActivityState", "updateRiskForDomain", "performRetentionCheck">>

\* The awaited calls of each unit kind, in order. roll: Math.random() < 0.1.
Program(kind, url, frameId, roll) ==
  CASE kind = "completed" ->
         IF frameId # 0 THEN <<>>
         ELSE RecSteps(url) \o (IF roll THEN GcSteps ELSE <<>>)
                \o (IF getDomain(url) = NoDomain THEN <<>> ELSE CompletedTail)
    [] kind \in {"committed", "history"} -> RecSteps(url)
    [] kind = "opener" -> <<"opener.get", "opener.set">>
    [] kind = "reset" -> <<"local.clear", "session.clear", "local.set", "setBadgeText">>
    [] kind = "cleanup" -> <<"performRetentionCheck">>
    [] kind \in {"signal", "saml"} ->
         <<"getSettings", "classify", "updateActivityState", "updateRiskForDomain">>
    [] kind = "override" -> <<"updateUserOverride", "updateRiskForDomain">>

\* Steps after which the unit may return early (collection disabled, burst
\* dedupe): decided by chrome.storage.local content.
MayReturnAfter == {"local.get", "getSettings"}

EventKindOf(kind) == IF kind \in {"committed", "history", "completed"} THEN kind ELSE "none"

NewUnit(kind, tab, src, url, frameId, roll) ==
  [id |-> nextId + 1, kind |-> kind, tab |-> tab, src |-> src, url |-> url,
   evKind |-> EventKindOf(kind), prog |-> Program(kind, url, frameId, roll),
   tg |-> EmptyMap, cg |-> EmptyMap]

\* The log of served calls, by unit id; consecutive calls of one unit are
\* logged once.
Logged(log, id) ==
  IF log # <<>> /\ log[Len(log)] = id THEN log ELSE Append(log, id)

CanStart_Unchained(run) == TRUE

\* updateQueue.then(fn): fn starts once the previous link has settled.
CanStart(run) == run = EmptyMap

catchHandler_Rethrow(c) == c

\* .catch(err => console.error(...)): the link settles fulfilled.
catchHandler(c) == "fulfilled"

\* The call a unit or cleanup p is suspended at is served: p afterwards and
\* the session store afterwards.
Serve(p) ==
  LET step == Head(p.prog)
      rest == Tail(p.prog)
      read == [p EXCEPT !.prog = rest, !.tg = tabGraph, !.cg = tempGraph]
      wrote == [p EXCEPT !.prog = rest, !.tg = EmptyMap, !.cg = EmptyMap]
  IN  CASE step \in {"rec.get", "opener.get"} ->
             [proc |-> read, tab |-> tabGraph, temp |-> tempGraph]
        [] step = "rec.set" ->
             LET r == recordTemporalEvent(p.tg, p.cg, p.tab, p.url, p.evKind, now)
             IN  [proc |-> wrote, tab |-> r.tab, temp |-> r.temp]
        [] step = "opener.set" ->
             [proc |-> wrote, tab |-> recordTabOpener(p.tg, p.tab, p.src, TRUE, now),
              temp |-> tempGraph]
        [] step = "gc.get" ->
             [proc |-> IF pruneExpiredSessionData(tabGraph, tempGraph, now).changed
                         THEN read
                         ELSE [p EXCEPT !.prog = Tail(rest)],
              tab |-> tabGraph, temp |-> tempGraph]
        [] step = "gc.set" ->
             LET r == pruneExpiredSessionData(p.tg, p.cg, now)
             IN  [proc |-> wrote, tab |-> r.tab, temp |-> r.temp]
        [] step = "rm.get" ->
             [proc |-> IF p.tab \in DOMAIN tabGraph
                         THEN read
                         ELSE [p EXCEPT !.prog = Tail(rest)],
              tab |-> tabGraph, temp |-> tempGraph]
        [] step = "rm.set" ->
             [proc |-> wrote, tab |-> Del(p.tg, {p.tab}), temp |-> tempGraph]
        [] step = "session.clear" ->
             [proc |-> [p EXCEPT !.prog = rest], tab |-> EmptyMap, temp |-> EmptyMap]
        [] OTHER ->
             [proc |-> [p EXCEPT !.prog = rest], tab |-> tabGraph, temp |-> tempGraph]

QueueInit == ConfIdle /\ StoreIdle /\ QueueIdle /\ FnIdle

QueueFrame == UNCHANGED <<confVars, now, ops, hist, lastOp, fnVars>>

Enqueue(u) ==
  /\ nextId < MaxUnits
  /\ nextId' = nextId + 1
  /\ queue' = Append(queue, u)
  /\ status' = Put(status, u.id, "queued")
  /\ UNCHANGED <<tabGraph, tempGraph, running, chain, gc, gcCount, opLog>>
  /\ QueueFrame

\* webNavigation.onCompleted (http/https URLs only): always enqueues; the
\* frame filter runs inside the unit.
NavCompleted ==
  \E tab \in {1}, frameId \in {0, 1}, roll \in BOOLEAN :
    /\ frameId # 0 => ~roll
    /\ Enqueue(NewUnit("completed", tab, NoTab, GoodUrl, frameId, roll))

\* webNavigation.onCommitted: main frame only.
NavCommitted ==
  \E tab \in QueueTabs, url \in StoreUrls, frameId \in {0} :
    /\ frameId = 0
    /\ url = BadUrl => tab = 1
    /\ Enqueue(NewUnit("committed", tab, NoTab, url, frameId, FALSE))

\* webNavigation.onHistoryStateUpdated: main frame only.
NavHistory ==
  \E tab \in {1}, url \in {GoodUrl}, frameId \in {0} :
    /\ frameId = 0
    /\ Enqueue(NewUnit("history", tab, NoTab, url, frameId, FALSE))

\* webNavigation.onCreatedNavigationTarget
CreatedNavTarget ==
  \E tab \in {2}, src \in QueueTabs :
    /\ tab # src
    /\ Enqueue(NewUnit("opener", tab, src, NoUrl, 0, FALSE))

\* runtime.onMessage: RESET_ALL, RUN_CLEANUP, ACTIVITY_SIGNAL,
\* SAML_FORM_SIGNAL, SET_OVERRIDE
Message ==
  \E kind \in {"reset", "cleanup", "signal", "saml", "override"} :
    Enqueue(NewUnit(kind, NoTab, NoTab, GoodUrl, 0, FALSE))

\* The head of the chain starts; on a rejected chain .then skips it.
StartUnit ==
  /\ queue # <<>>
  /\ CanStart(running)
  /\ LET u == Head(queue)
     IN  IF chain = "rejected"
           THEN /\ status' = [status EXCEPT ![u.id] = "skipped"]
                /\ UNCHANGED running
           ELSE /\ status' = [status EXCEPT ![u.id] = "running"]
                /\ running' = Put(running, u.id, u)
  /\ queue' = Tail(queue)
  /\ UNCHANGED <<tabGraph, tempGraph, chain, gc, nextId, gcCount, opLog>>
  /\ QueueFrame

\* The awaited call of a running unit resolves.
UnitStep ==
  \E id \in DOMAIN running :
    /\ running[id].prog # <<>>
    /\ LET r == Serve(running[id])
       IN  /\ tabGraph' = r.tab
           /\ tempGraph' = r.temp
           /\ \E goOn \in BOOLEAN :
                /\ ~goOn => /\ Head(running[id].prog) \in MayReturnAfter
                            /\ running[id].kind \in {"completed", "signal", "saml"}
                /\ running' = [running EXCEPT ![id] =
                                 IF goOn THEN r.proc ELSE [r.proc EXCEPT !.prog = <<>>]]
    /\ opLog' = Logged(opLog, id)
    /\ UNCHANGED <<queue, chain, gc, nextId, gcCount, status>>
    /\ QueueFrame

\* The awaited call of a running unit rejects: the unit throws, the link's
\* catch handler runs.
UnitReject ==
  \E id \in DOMAIN running :
    /\ running[id].prog # <<>>
    /\ running' = Del(running, {id})
    /\ status' = [status EXCEPT ![id] = "failed"]
    /\ chain' = catchHandler("rejected")
    /\ opLog' = Logged(opLog, id)
    /\ UNCHANGED <<tabGraph, tempGraph, queue, gc, nextId, gcCount>>
    /\ QueueFrame

\* A running unit returns.
UnitFinish ==
  \E id \in DOMAIN running :
    /\ running[id].prog = <<>>
    /\ running' = Del(running, {id})
    /\ status' = [status EXCEPT ![id] = "done"]
    /\ UNCHANGED <<tabGraph, tempGraph, queue, chain, gc, nextId, gcCount, opLog>>
    /\ QueueFrame

\* tabs.onRemoved: handleTabRemoval(tabId), not queued.
TabClosed ==
  /\ gc = NoGc
  /\ gcCount < MaxGc
  /\ \E tab \in QueueTabs :
       gc' = [kind |-> "tabRemoved", tab |-> tab,
              prog |-> <<"rm.get", "rm.set">> \o GcSteps,
              tg |-> EmptyMap, cg |-> EmptyMap]
  /\ gcCount' = gcCount + 1
  /\ UNCHANGED <<tabGraph, tempGraph, queue, running, chain, nextId, status, opLog>>
  /\ QueueFrame

\* runtime.onStartup: startupCleanupSessionStore(), not queued; the browser
\* has just started, nothing has been enqueued.
Startup ==
  /\ gc = NoGc
  /\ gcCount < MaxGc
  /\ nextId = 0
  /\ gc' = [kind |-> "startup", tab |-> NoTab, prog |-> GcSteps,
            tg |-> EmptyMap, cg |-> EmptyMap]
  /\ gcCount' = gcCount + 1
  /\ UNCHANGED <<tabGraph, tempGraph, queue, running, chain, nextId, status, opLog>>
  /\ QueueFrame

\* The awaited call of the cleanup in flight resolves.
GcStep ==
  /\ gc # NoGc
  /\ LET r == Serve(gc)
     IN  /\ tabGraph' = r.tab
         /\ tempGraph' = r.temp
         /\ gc' = IF r.proc.prog = <<>> THEN NoGc ELSE r.proc
  /\ UNCHANGED <<queue, running, chain, nextId, gcCount, status, opLog>>
  /\ QueueFrame

\* The listeners that enqueue, and the queue itself.
ChainNext ==
  \/ NavCompleted \/ NavCommitted \/ NavHistory \/ CreatedNavTarget \/ Message
  \/ StartUnit \/ UnitStep \/ UnitReject \/ UnitFinish

QueueNext == ChainNext \/ TabClosed \/ Startup \/ GcStep

SpecQueue == QueueInit /\ [][QueueNext]_vars

\* The queue alone; promise jobs run and awaited calls settle.
SpecQueueFair ==
  /\ QueueInit
  /\ [][ChainNext]_vars
  /\ WF_vars(StartUnit)
  /\ WF_vars(UnitStep \/ UnitReject)
  /\ WF_vars(UnitFinish)


----------------------------------------------------------------------------
(* Claims on the update queue *)

Settled(st) == st \in {"done", "failed"}

\* C1: the units enqueued on the update queue run one at a time in enqueue
\* order: at most one unit is running, and in the log of served calls every
\* unit's calls are contiguous and the units appear in enqueue order, so no
\* call of one unit is served between two calls of another.
C1_QueuedUnitsSerialized ==
  /\ Cardinality(DOMAIN running) <= 1
  /\ \A i, j \in DOMAIN opLog : i < j => opLog[i] < opLog[j]
  /\ \A id \in DOMAIN running : \A k \in 1..Len(queue) : id < queue[k].id

\* A unit holds its read of the session store and has not yet written it
\* back, while a later unit waits behind it.
C1_Witness ==
  /\ queue # <<>>
  /\ opLog # <<>>
  /\ \E id \in DOMAIN running :
       /\ running[id].prog # <<>>
       /\ Head(running[id].prog) \in {"rec.set", "opener.set"}

\* C2: a tab-close cleanup or startup GC that overlaps a queued unit never
\* overwrites that unit's write: whatever entered the session store after
\* the cleanup's read is still there after the cleanup's write.
C2_CleanupKeepsConcurrentWrites ==
  [][(/\ gc # NoGc
      /\ gc' # gc
      /\ Head(gc.prog) \in {"rm.set", "gc.set"})
     => /\ \A x \in DOMAIN tabGraph :
             (x \notin DOMAIN gc.tg \/ gc.tg[x] # tabGraph[x])
               => (x \in DOMAIN tabGraph' /\ tabGraph'[x] = tabGraph[x])
        /\ \A c \in DOMAIN tempGraph :
             (Head(gc.prog) = "gc.set" /\ (c \notin DOMAIN gc.cg \/ gc.cg[c] # tempGraph[c]))
               => (c \in DOMAIN tempGraph' /\ tempGraph'[c] = tempGraph[c])]_vars

\* C3: a failure in one queued unit does not poison the queue: no unit is
\* skipped, units start in enqueue order after every earlier unit has
\* settled, and every enqueued unit eventually runs to its end or to its
\* own failure.
C3_FailureDoesNotPoisonQueue ==
  /\ [](\A u \in DOMAIN status : status[u] # "skipped")
  /\ [](\A u, v \in DOMAIN status :
          (u < v /\ status[v] # "queued") => Settled(status[u]))
  /\ \A u \in 1..MaxUnits :
       (u \in DOMAIN status /\ status[u] = "queued")
         ~> (u \in DOMAIN status /\ Settled(status[u]))

\* A unit failed and the unit enqueued after it ran its calls to the end.
C3_Witness ==
  \E u, v \in DOMAIN status :
    /\ u < v
    /\ status[u] = "failed"
    /\ status[v] = "done"
    /\ \E i \in DOMAIN opLog : opLog[i] = v


(***************************************************************************)
(* Part D: Round-trip detector                                             *)
(*                                                                         *)
(* An event is {ts, domain, tabId, openerTabId}; a missing tabId or        *)
(* openerTabId (undefined) is NoTab. Positions are 1-based and 0 stands    *)
(* for findIndex's -1.                                                     *)
(***************************************************************************)

MaxRtEvents == 3

\* ttlMs = 30000
RT_TTL_MS == 30000

RpDomain == "rp.com"
IdpDomain == "idp.com"
OtherDomain == "other.com"

\* Timestamps: before, at the forward leg, exactly ttlMs later, 1 ms more.
RtTimes == {0, 100, 100 + RT_TTL_MS, 101 + RT_TTL_MS}

\* <<tabId, openerTabId>> of the RP and of the IdP events offered.
RtRpTabs == {<<NoTab, NoTab>>, <<1, NoTab>>, <<2, NoTab>>, <<2, 1>>}
RtIdpTabs == {<<NoTab, NoTab>>, <<1, NoTab>>, <<2, 1>>}

RtEvents ==
  {[ts |-> t, domain |-> RpDomain, tabId |-> x[1], openerTabId |-> x[2]] :
     t \in RtTimes, x \in RtRpTabs}
  \cup {[ts |-> t, domain |-> IdpDomain, tabId |-> x[1], openerTabId |-> x[2]] :
          t \in RtTimes, x \in RtIdpTabs}
  \cup {[ts |-> t, domain |-> OtherDomain, tabId |-> 1, openerTabId |-> NoTab] :
          t \in {0, 100}}

\* Insert e behind every element whose ts is not larger.
RECURSIVE insertByTs(_, _)
insertByTs(e, s) ==
  IF s = <<>> THEN <<e>>
  ELSE IF s[Len(s)].ts <= e.ts THEN Append(s, e)
  ELSE Append(insertByTs(e, SubSeq(s, 1, Len(s) - 1)), s[Len(s)])

sortByTs_None(events) == events

\* [...events].sort((a, b) => a.ts - b.ts): stable.
RECURSIVE sortByTs(_)
sortByTs(events) ==
  IF events = <<>> THEN <<>>
  ELSE insertByTs(events[Len(events)], sortByTs(SubSeq(events, 1, Len(events) - 1)))

firstOf(S) == IF S = {} THEN 0 ELSE CHOOSE i \in S : \A j \in S : i <= j

forwardIndex_AnyIdp(sortedEvents, rpCandidate, idpCandidate) ==
  firstOf({idx \in 2..Len(sortedEvents) : sortedEvents[idx].domain = idpCandidate})

\* The first IdP event whose immediate predecessor is on the RP.
forwardIndex(sortedEvents, rpCandidate, idpCandidate) ==
  firstOf({idx \in 2..Len(sortedEvents) :
             /\ sortedEvents[idx].domain = idpCandidate
             /\ sortedEvents[idx - 1].domain = rpCandidate})

\* The first RP event behind the forward leg.
backwardIndex(sortedEvents, rpCandidate, fwd) ==
  firstOf({idx \in (fwd + 1)..Len(sortedEvents) : sortedEvents[idx].domain = rpCandidate})

tooSlow_AtLeast(forwardEvent, backwardEvent, ttlMs) ==
  backwardEvent.ts - forwardEvent.ts >= ttlMs

\* 3. Check TTL
tooSlow(forwardEvent, backwardEvent, ttlMs) ==
  backwardEvent.ts - forwardEvent.ts > ttlMs

linked_BackwardOnly(forwardEvent, backwardEvent) ==
  backwardEvent.openerTabId = forwardEvent.tabId

\* linked: the backward tab was opened by the forward tab or vice versa.
linked(forwardEvent, backwardEvent) ==
  \/ backwardEvent.openerTabId = forwardEvent.tabId
  \/ forwardEvent.openerTabId = backwardEvent.tabId

\* 4. Check Context (Tab Linkage)
contextOk(forwardEvent, backwardEvent) ==
  IF forwardEvent.tabId # NoTab /\ backwardEvent.tabId # NoTab
    THEN IF forwardEvent.tabId # backwardEvent.tabId
           THEN linked(forwardEvent, backwardEvent)
           ELSE TRUE
    ELSE TRUE

isRoundtrip_AnyPair(rpCandidate, idpCandidate, events, ttlMs) ==
  LET sortedEvents == sortByTs(events)
  IN  \E fwd \in 2..Len(sortedEvents), bwd \in 3..Len(sortedEvents) :
        /\ fwd < bwd
        /\ sortedEvents[fwd].domain = idpCandidate
        /\ sortedEvents[fwd - 1].domain = rpCandidate
        /\ sortedEvents[bwd].domain = rpCandidate
        /\ ~tooSlow(sortedEvents[fwd], sortedEvents[bwd], ttlMs)
        /\ contextOk(sortedEvents[fwd], sortedEvents[bwd])

isRoundtrip(rpCandidate, idpCandidate, events, ttlMs) ==
  IF Len(events) < 2 THEN FALSE
  ELSE
    LET sortedEvents == sortByTs(events)
        fwd == forwardIndex(sortedEvents, rpCandidate, idpCandidate)
    IN  IF fwd = 0 THEN FALSE
        ELSE
          LET bwd == backwardIndex(sortedEvents, rpCandidate, fwd)
          IN  IF bwd = 0 THEN FALSE
              ELSE IF tooSlow(sortedEvents[fwd], sortedEvents[bwd], ttlMs) THEN FALSE
              ELSE contextOk(sortedEvents[fwd], sortedEvents[bwd])

RtInit == ConfIdle /\ StoreIdle /\ QueueIdle /\ FnIdle

\* One more event is on record and the detector is consulted.
RtCheck ==
  /\ Len(rtEvents) < MaxRtEvents
  /\ \E e \in RtEvents :
       /\ rtEvents' = Append(rtEvents, e)
       /\ rtOut' = isRoundtrip(RpDomain, IdpDomain, rtEvents', RT_TTL_MS)
  /\ UNCHANGED <<confVars, storeVars, queueVars, msIn, msOut, callVars>>

RtNext == RtCheck

SpecRt == RtInit /\ [][RtNext]_vars

----------------------------------------------------------------------------
(* Claims on the round-trip detector *)

\* The sorted events and the two legs the detector picks (0: none).
RtView ==
  LET S == sortByTs(rtEvents)
      f == forwardIndex(S, RpDomain, IdpDomain)
      b == IF f = 0 THEN 0 ELSE backwardIndex(S, RpDomain, f)
  IN  [S |-> S, f |-> f, b |-> b,
       gap |-> IF f # 0 /\ b # 0 THEN S[b].ts - S[f].ts ELSE 0]

\* C15: is_roundtrip returns true only if, in timestamp order, some IdP
\* event is immediately preceded by an RP event and followed later by an RP
\* event.
C15_RoundtripNeedsRpThenIdpThenRp ==
  rtOut =>
    LET S == sortByTs(rtEvents)
    IN  \E i \in 2..Len(S), j \in 3..Len(S) :
          /\ i < j
          /\ S[i].domain = IdpDomain
          /\ S[i - 1].domain = RpDomain
          /\ S[j].domain = RpDomain

\* C15 witness: an accepted sequence that arrived out of timestamp order.
C15_Witness ==
  /\ rtOut
  /\ rtEvents # sortByTs(rtEvents)

\* C16: a pair of legs more than ttl apart is rejected, a pair at most ttl
\* apart is not rejected by the time check (the verdict is the context
\* check's), and the time on the RP before the IdP visit is not counted.
C16_TtlWindow ==
  LET v == RtView
  IN  (v.f # 0 /\ v.b # 0) =>
        /\ v.gap > RT_TTL_MS => ~rtOut
        /\ v.gap <= RT_TTL_MS => (rtOut <=> contextOk(v.S[v.f], v.S[v.b]))

\* C16 witness: accepted with the legs exactly ttl apart, the RP visit
\* before the IdP lying further back than ttl.
C16_Witness ==
  LET v == RtView
  IN  /\ rtOut
      /\ v.f # 0 /\ v.b # 0
      /\ v.gap = RT_TTL_MS
      /\ v.S[v.b].ts - v.S[v.f - 1].ts > RT_TTL_MS

\* C17: with both legs carrying different tab ids and inside the window,
\* the pair is accepted exactly if one leg's opener snapshot is the other
\* leg's tab; with equal tab ids or a leg without tab id it is accepted.
C17_ContextLinkage ==
  LET v == RtView
      f == v.S[v.f]
      b == v.S[v.b]
  IN  (v.f # 0 /\ v.b # 0 /\ v.gap <= RT_TTL_MS) =>
        IF f.tabId # NoTab /\ b.tabId # NoTab /\ f.tabId # b.tabId
          THEN rtOut <=> (b.openerTabId = f.tabId \/ f.openerTabId = b.tabId)
          ELSE rtOut

\* C17 witness: accepted across two tabs through the forward leg's opener.
C17_Witness ==
  LET v == RtView
      f == v.S[v.f]
      b == v.S[v.b]
  IN  /\ rtOut
      /\ v.f # 0 /\ v.b # 0
      /\ f.tabId # b.tabId
      /\ f.openerTabId = b.tabId
      /\ b.openerTabId # f.tabId

(***************************************************************************)
(* Part E: Management-state mapper                                         *)
(*                                                                         *)
(* confidence is in hundredths; an absent rp_domain is the empty string.   *)
(***************************************************************************)

\* ActivityLevels
ActivityLevels == {"view", "account", "ugc", "transaction"}

\* MANAGEMENT_STATE
MANAGEMENT_STATE == {"pinned", "suggested", "needs_review", "none"}

\* Arguments offered to the mapper: values on both sides of every threshold.
MapInputs ==
  [level : ActivityLevels,
   score : {0, 39, 40, 100},
   confidence : {0, 30, 31, 59, 60, 79, 80, 100},
   rp_domain : {"", RpDomain},
   evidenceFlags : {{}, {"redirect_uri_match"}, {"temporal_chain"},
                    {"known_idp", "oauth_params"}, {"strong_path", "opener_link"}},
   seenCount : {0, 99, 100, 199, 200},
   isPinned : BOOLEAN]

hasStrongAuth_AnyFlag(evidenceFlags) == evidenceFlags # {}

hasStrongAuth(evidenceFlags) ==
  \/ "redirect_uri_match" \in evidenceFlags
  \/ "temporal_chain" \in evidenceFlags

\* 2. SUGGESTED rules
suggestedRule(p) ==
  /\ p.confidence >= 80
  /\ \/ p.level = "transaction"
     \/ /\ p.level = "account"
        /\ (p.rp_domain # "" \/ hasStrongAuth(p.evidenceFlags))

needsReviewRule_NoViewCarveOut(p) ==
  \/ (p.level # "view" /\ p.confidence >= 60 /\ p.score >= 40)
  \/ (p.seenCount >= 100 /\ p.confidence > 30)

\* 3. NEEDS_REVIEW rules: rule A, rule B, special case
needsReviewRule(p) ==
  \/ (p.level # "view" /\ p.confidence >= 60 /\ p.score >= 40)
  \/ (p.seenCount >= 100 /\ p.confidence > 30)
  \/ (p.level = "view" /\ p.seenCount >= 200)

mapToManagementState_SuggestedFirst(p) ==
  IF suggestedRule(p) THEN "suggested"
  ELSE IF p.isPinned THEN "pinned"
  ELSE IF needsReviewRule(p) THEN "needs_review"
  ELSE "none"

mapToManagementState(p) ==
  IF p.isPinned THEN "pinned"
  ELSE IF suggestedRule(p) THEN "suggested"
  ELSE IF needsReviewRule(p) THEN "needs_review"
  ELSE "none"

MapInit ==
  /\ ConfIdle /\ StoreIdle /\ QueueIdle
  /\ rtEvents = <<>>
  /\ rtOut = FALSE
  /\ msIn \in MapInputs
  /\ msOut = "unset"
  /\ CallIdle

MapState ==
  /\ msOut = "unset"
  /\ msOut' = mapToManagementState(msIn)
  /\ UNCHANGED <<confVars, storeVars, queueVars, rtEvents, rtOut, msIn, callVars>>

MapNext == MapState

SpecMap == MapInit /\ [][MapNext]_vars

----------------------------------------------------------------------------
(* Claims on the mapper *)

\* C18: whenever isPinned is true the result is pinned, whatever the level,
\* score, confidence, RP domain, evidence flags and visit count.
C18_PinWins ==
  (msOut # "unset" /\ msIn.isPinned) => msOut = "pinned"

\* C18 witness: a pinned input that also meets a suggested rule.
C18_Witness ==
  /\ msOut = "pinned"
  /\ msIn.confidence >= 80
  /\ msIn.level = "transaction"

\* C19: the result is the first matching row of the seven-rule table.
C19_DecisionTable ==
  msOut # "unset" =>
    msOut =
      CASE msIn.isPinned -> "pinned"
        [] ~msIn.isPinned /\ msIn.confidence >= 80 /\ msIn.level = "transaction"
             -> "suggested"
        [] ~msIn.isPinned /\ msIn.confidence >= 80 /\ msIn.level = "account"
             /\ ( \/ msIn.rp_domain # ""
                  \/ "redirect_uri_match" \in msIn.evidenceFlags
                  \/ "temporal_chain" \in msIn.evidenceFlags )
             -> "suggested"
        [] OTHER ->
             IF msIn.level # "view" /\ msIn.confidence >= 60 /\ msIn.score >= 40
               THEN "needs_review"
             ELSE IF msIn.seenCount >= 100 /\ msIn.confidence > 30
               THEN "needs_review"
             ELSE IF msIn.level = "view" /\ msIn.seenCount >= 200
               THEN "needs_review"
             ELSE "none"

\* C19 witness: only the sixth row matches (a view visited 200 times with
\* confidence not above 0.3).
C19_Witness ==
  /\ msOut = "needs_review"
  /\ msIn.level = "view"
  /\ msIn.seenCount >= 200
  /\ msIn.confidence <= 30

\* C20: an unpinned account-level input is mapped to suggested only if its
\* confidence is at least 0.8 and it has an RP domain or a redirect-URI
\* match or temporal chain flag.
C20_AccountNeedsCorroboration ==
  (msOut = "suggested" /\ msIn.level = "account" /\ ~msIn.isPinned) =>
    /\ msIn.confidence >= 80
    /\ \/ msIn.rp_domain # ""
       \/ "redirect_uri_match" \in msIn.evidenceFlags
       \/ "temporal_chain" \in msIn.evidenceFlags

\* C20 witness: a high-confidence account input with other flags only, no
\* RP, a high score and many visits, that was not suggested.
C20_Witness ==
  /\ msOut \notin {"unset", "suggested"}
  /\ ~msIn.isPinned
  /\ msIn.level = "account"
  /\ msIn.confidence = 100
  /\ msIn.rp_domain = ""
  /\ msIn.evidenceFlags = {"known_idp", "oauth_params"}
  /\ msIn.score = 100
  /\ msIn.seenCount = 200

(***************************************************************************)
(* Part F: Risk calculation job                                            *)
(*                                                                         *)
(* updateRiskForDomain reads the activity state, the visit statistics and  *)
(* the user override of one domain and writes the domain's risk record.    *)
(***************************************************************************)

\* RISK_REASONS
RISK_REASONS ==
  {"level_transaction", "level_account", "level_ugc", "frequent_visitor",
   "rare_visitor", "user_whitelisted", "user_pinned", "cat_finance", "cat_auth",
   "cat_shopping", "cat_social", "cat_other"}

\* CATEGORIES
CATEGORIES == {"finance", "auth", "shopping", "social", "cloud", "other"}

\* A missing activity state or a missing last_estimation_level.
NoLevel == "undefined"
\* A missing override, or an override that has no category.
NoCategory == ""

\* What the job may find in storage for its domain: every level and a
\* missing one, visit counts on both sides of each threshold, every
\* category and none, every combination of the override flags.
RiskInputs ==
  [level : ActivityLevels \cup {NoLevel},
   visit_count_total : {0, 50, 51, 200, 201, 250},
   category : CATEGORIES \cup {NoCategory},
   ignored : BOOLEAN,
   whitelisted : BOOLEAN,
   pinned : BOOLEAN]

\* 2. Base Score from Activity Level
baseScore(level) ==
  CASE level = "transaction" -> [score |-> 70, reasons |-> <<"level_transaction">>]
    [] level = "ugc" -> [score |-> 45, reasons |-> <<"level_ugc">>]
    [] level = "account" -> [score |-> 30, reasons |-> <<"level_account">>]
    [] OTHER -> [score |-> 5, reasons |-> <<>>]

frequencyBoost_Inclusive(totalVisits) ==
  IF totalVisits >= 200 THEN [score |-> 10, reasons |-> <<"frequent_visitor">>]
  ELSE IF totalVisits >= 50 THEN [score |-> 5, reasons |-> <<>>]
  ELSE [score |-> 0, reasons |-> <<>>]

\* 3. Frequency Boost
frequencyBoost(totalVisits) ==
  IF totalVisits > 200 THEN [score |-> 10, reasons |-> <<"frequent_visitor">>]
  ELSE IF totalVisits > 50 THEN [score |-> 5, reasons |-> <<>>]
  ELSE [score |-> 0, reasons |-> <<>>]

\* 4. Category Boosts
categoryBoost(category) ==
  CASE category = "finance" -> [score |-> 20, reasons |-> <<"cat_finance">>]
    [] category = "auth" -> [score |-> 15, reasons |-> <<"cat_auth">>]
    [] category = "shopping" -> [score |-> 10, reasons |-> <<"cat_shopping">>]
    [] OTHER -> [score |-> 0, reasons |-> <<>>]

updateRiskForDomain_NoClamp(in) ==
  IF in.ignored
    THEN [score |-> 0, confidence |-> "high", reasons |-> <<>>]
    ELSE
      LET level == IF in.level = NoLevel THEN "view" ELSE in.level
          b == baseScore(level)
          f == frequencyBoost(in.visit_count_total)
          c == categoryBoost(in.category)
          s3 == b.score + f.score + c.score
      IN  [score |-> IF in.whitelisted THEN s3 - 30 ELSE s3,
           confidence |-> "medium",
           reasons |-> b.reasons \o f.reasons \o c.reasons
                       \o (IF in.whitelisted THEN <<"user_whitelisted">> ELSE <<>>)
                       \o (IF in.pinned THEN <<"user_pinned">> ELSE <<>>)]

updateRiskForDomain_IgnoredUnchecked(in) ==
  LET level == IF in.level = NoLevel THEN "view" ELSE in.level
      b == baseScore(level)
      f == frequencyBoost(in.visit_count_total)
      c == categoryBoost(in.category)
      s3 == b.score + f.score + c.score
      s4 == IF in.whitelisted THEN Max(0, s3 - 30) ELSE s3
  IN  [score |-> Min(100, Max(0, s4)),
       confidence |-> "medium",
       reasons |-> b.reasons \o f.reasons \o c.reasons
                   \o (IF in.whitelisted THEN <<"user_whitelisted">> ELSE <<>>)
                   \o (IF in.pinned THEN <<"user_pinned">> ELSE <<>>)]

\* updateRiskForDomain: the record handed to updateRiskRecord (without its
\* last_updated_ts).
updateRiskForDomain(in) ==
  IF in.ignored
    THEN [score |-> 0, confidence |-> "high", reasons |-> <<>>]
    ELSE
      LET level == IF in.level = NoLevel THEN "view" ELSE in.level
          b == baseScore(level)
          f == frequencyBoost(in.visit_count_total)
          c == categoryBoost(in.category)
          s3 == b.score + f.score + c.score
          s4 == IF in.whitelisted THEN Max(0, s3 - 30) ELSE s3
      IN  [score |-> Min(100, Max(0, s4)),
           confidence |-> "medium",
           reasons |-> b.reasons \o f.reasons \o c.reasons
                       \o (IF in.whitelisted THEN <<"user_whitelisted">> ELSE <<>>)
                       \o (IF in.pinned THEN <<"user_pinned">> ELSE <<>>)]

RiskInit ==
  /\ ConfIdle /\ StoreIdle /\ QueueIdle
  /\ rtEvents = <<>>
  /\ rtOut = FALSE
  /\ msIn = NoMapInput
  /\ msOut = "unset"
  /\ riskIn \in RiskInputs
  /\ riskOut = NoRiskRecord
  /\ WalkIdle /\ OpenerIdle /\ SignalIdle /\ ClassifyIdle /\ SvcIdle

\* The job runs for the domain and the record is written.
RiskUpdate ==
  /\ ~Written(riskOut)
  /\ riskOut' = updateRiskForDomain(riskIn)
  /\ UNCHANGED <<confVars, storeVars, queueVars, rtEvents, rtOut, msIn, msOut,
                 riskIn, walk, opIn, opOut, sigIn, sigOut, clsIn, clsOut,
                 svcVars>>

RiskNext == RiskUpdate

SpecRisk == RiskInit /\ [][RiskNext]_vars

----------------------------------------------------------------------------
(* Claims on the risk job *)

\* C21: every risk record the job writes has a score between 0 and 100.
C21_ScoreInRange ==
  Written(riskOut) => (riskOut.score >= 0 /\ riskOut.score <= 100)

\* C21 witness: both ends are written: a whitelisted view (5 - 30) gets 0
\* and a frequent finance transaction (70 + 10 + 20) gets 100.
C21_Witness ==
  /\ Written(riskOut)
  /\ ~riskIn.ignored
  /\ \/ (riskIn.level = "view" /\ riskIn.whitelisted /\ riskIn.category = NoCategory
           /\ riskIn.visit_count_total = 0 /\ riskOut.score = 0)
     \/ (riskIn.level = "transaction" /\ ~riskIn.whitelisted
           /\ riskIn.category = "finance" /\ riskIn.visit_count_total = 201
           /\ riskOut.score = 100)

\* C22: for an ignored domain the record has score 0 and no reasons,
\* whatever the level, the visits and the other override fields.
C22_IgnoredIsZero ==
  (Written(riskOut) /\ riskIn.ignored) =>
    (riskOut.score = 0 /\ riskOut.reasons = <<>>)

\* C22 witness: an ignored, pinned, frequent finance transaction.
C22_Witness ==
  /\ Written(riskOut)
  /\ riskIn.ignored
  /\ riskIn.pinned
  /\ riskIn.level = "transaction"
  /\ riskIn.category = "finance"
  /\ riskIn.visit_count_total = 250
  /\ riskOut.score = 0

----------------------------------------------------------------------------
(* Claims on record_event *)

\* C24: record_event with an empty or unparseable URL or a URL of a scheme
\* other than http/https writes nothing and leaves both graphs as they
\* were, and a well-formed event that comes next is recorded as usual.
C24_BadUrlFailsClosed ==
  [][ (lastOp'.op = "recordEvent" /\ lastOp'.rejected) =>
        /\ ~lastOp'.wrote
        /\ tabGraph' = tabGraph
        /\ tempGraph' = tempGraph
        /\ LET next == recordTemporalEvent(tabGraph', tempGraph', lastOp'.tab,
                                           GoodUrl, "completed", now')
           IN  /\ next = recordTemporalEvent(tabGraph, tempGraph, lastOp'.tab,
                                             GoodUrl, "completed", now)
               /\ next.wrote
               /\ next.temp[next.ctx].events[Len(next.temp[next.ctx].events)].tabId
                    = lastOp'.tab
    ]_vars

\* C24 witness: an event was dropped while the store held a context.
C24_Witness ==
  /\ lastOp.op = "recordEvent"
  /\ lastOp.rejected
  /\ ~lastOp.wrote
  /\ tempGraph # EmptyMap
  /\ tabGraph # EmptyMap

\* What may follow the host in a URL: nothing, a path with a query, a path
\* with a query and a fragment.
PrivacyRests == {"", GoodUrl.rest, GoodUrlOtherPath.rest}
EventFields == {"ts", "domain", "tabId", "openerTabId", "kind"}

\* C27: two record_event calls that differ only in the path, query and
\* fragment of the URL leave identical stores: the store a call leaves is
\* the one every such variant of its URL gives; and every stored event
\* consists of the timestamp, the reduced domain, the tab id, the opener
\* snapshot and the kind, nothing else.
C27_PathNeverStored ==
  /\ [][ (lastOp'.op = "recordEvent" /\ lastOp'.wrote) =>
           \E kind \in StoreKinds : \A rest \in PrivacyRests :
             LET r == recordTemporalEvent(tabGraph, tempGraph, lastOp'.tab,
                                          [GoodUrl EXCEPT !.rest = rest], kind, now)
             IN  r.tab = tabGraph' /\ r.temp = tempGraph'
       ]_vars
  /\ [](\A c \in DOMAIN tempGraph : \A i \in 1..Len(tempGraph[c].events) :
          LET e == tempGraph[c].events[i]
          IN  /\ DOMAIN e = EventFields
              /\ e.domain = <<"rp", "com">>
              /\ e.tabId \in Tabs
              /\ e.openerTabId \in Tabs \cup {NoTab}
              /\ e.kind \in StoreKinds
              /\ e.ts <= now)

\* C27 witness: a context holds two events of the same tab and kind,
\* recorded at the same time, one of them by the last call.
C27_Witness ==
  /\ lastOp.op = "recordEvent"
  /\ lastOp.wrote
  /\ \E c \in DOMAIN tempGraph :
       /\ Len(tempGraph[c].events) = 2
       /\ tempGraph[c].events[1] = tempGraph[c].events[2]
       /\ tempGraph[c].events[1].domain = <<"rp", "com">>

----------------------------------------------------------------------------
(* resolveContextId, one call of the function per step *)

\* Tab ids of the graphs the walk is run on.
MaxWalkTabs == 3
WalkTabs == 1..MaxWalkTabs

\* Every tab graph over these tabs: any tab may have no node, a node without
\* opener, or a node whose opener is any tab, itself and tabs without node
\* included.
WalkGraphs ==
  UNION {[D -> [openerTabId : WalkTabs \cup {NoTab}]] : D \in SUBSET WalkTabs}

isRoot_NodeOnly(graph, tabId) == tabId \notin DOMAIN graph

\* !node || !node.openerTabId
isRoot(graph, tabId) ==
  \/ tabId \notin DOMAIN graph
  \/ graph[tabId].openerTabId = NoTab

\* The opener the walk goes to from a tab that is not a root.
parentOf(graph, tabId) ==
  IF tabId \in DOMAIN graph THEN graph[tabId].openerTabId ELSE NoTab

WalkInit ==
  /\ ConfIdle /\ StoreIdle /\ QueueIdle
  /\ rtEvents = <<>>
  /\ rtOut = FALSE
  /\ msIn = NoMapInput
  /\ msOut = "unset"
  /\ RiskIdle /\ OpenerIdle /\ SignalIdle /\ ClassifyIdle /\ SvcIdle
  /\ \E g \in WalkGraphs, t \in WalkTabs :
       walk = [graph |-> g, start |-> t, tabId |-> t, visited |-> {},
               path |-> <<>>, out |-> NoTab]

\* One invocation of resolveContextId(tabId, tabGraph, visited): it returns
\* (and every caller returns the same value), or it adds the tab to visited
\* and calls itself on the opener.
ResolveCall ==
  /\ walk.out = NoTab
  /\ walk' =
       IF walk.tabId \in walk.visited
         THEN [walk EXCEPT !.out = walk.tabId]
       ELSE IF isRoot(walk.graph, walk.tabId)
         THEN [walk EXCEPT !.visited = @ \cup {walk.tabId},
                           !.path = Append(@, walk.tabId),
                           !.out = walk.tabId]
       ELSE [walk EXCEPT !.visited = @ \cup {walk.tabId},
                         !.path = Append(@, walk.tabId),
                         !.tabId = parentOf(walk.graph, walk.tabId)]
  /\ UNCHANGED <<confVars, storeVars, queueVars, rtEvents, rtOut, msIn, msOut,
                 riskIn, riskOut, opIn, opOut, sigIn, sigOut, clsIn, clsOut,
                 svcVars>>

WalkNext == ResolveCall

SpecWalk == WalkInit /\ [][WalkNext]_vars

\* The function is synchronous: a call that was made runs.
SpecWalkFair == SpecWalk /\ WF_vars(ResolveCall)

----------------------------------------------------------------------------
(* Claims on resolveContextId *)

\* The tabs from which the start tab is reached again by following openers.
OnCycle(graph, t) ==
  \E n \in 1..MaxWalkTabs :
    \E p \in [1..(n + 1) -> WalkTabs] :
      /\ p[1] = t
      /\ p[n + 1] = t
      /\ \A i \in 1..n : ~isRoot(graph, p[i]) /\ graph[p[i]].openerTabId = p[i + 1]

\* C25: on every tab graph, self-openers and cycles included, the walk
\* returns, it visits no tab twice, and it returns the first tab on the
\* opener chain that has no node or no opener, or else the first tab the
\* chain comes back to; a start tab that lies on a cycle is its own root.
C25_WalkTerminatesAtRoot ==
  /\ <>(walk.out # NoTab)
  /\ [](LET p == walk.path
        IN  /\ \A i, j \in 1..Len(p) : p[i] = p[j] => i = j
            /\ \A i \in 1..Len(p) : p[i] \in WalkTabs
            /\ Len(p) > 0 => p[1] = walk.start
            /\ \A i \in 1..(Len(p) - 1) :
                 ~isRoot(walk.graph, p[i]) /\ walk.graph[p[i]].openerTabId = p[i + 1]
            /\ walk.out # NoTab =>
                 /\ Len(p) > 0
                 /\ walk.out = resolveContextId(walk.start, walk.graph, {})
                 /\ IF walk.out \notin DOMAIN walk.graph
                         \/ walk.graph[walk.out].openerTabId = NoTab
                      THEN walk.out = p[Len(p)]
                      ELSE /\ walk.graph[p[Len(p)]].openerTabId = walk.out
                           /\ \E i \in 1..Len(p) : p[i] = walk.out
                 /\ OnCycle(walk.graph, walk.start) => walk.out = walk.start)

\* C25 witness: a walk from a tab outside a two-tab cycle came back to the
\* tab at which it entered the cycle.
C25_Witness ==
  /\ walk.out # NoTab
  /\ walk.out # walk.start
  /\ Len(walk.path) = 3
  /\ walk.path[3] \in DOMAIN walk.graph
  /\ walk.graph[walk.path[3]].openerTabId = walk.out
  /\ walk.out = walk.path[2]

----------------------------------------------------------------------------
(* recordTabOpener, one call *)

\* Every tab graph over WalkTabs whose nodes were last touched at time 0.
OpenerGraphs ==
  UNION {[D -> [openerTabId : WalkTabs \cup {NoTab}, createdAt : {0}, lastSeenAt : {0}]]
           : D \in SUBSET WalkTabs}

\* The temporal graph in storage at the call: empty, or one context.
OpenerTemps ==
  {EmptyMap,
   [c \in {1} |-> [events |-> <<[ts |-> 0, domain |-> <<"rp", "com">>, tabId |-> 1,
                                 openerTabId |-> NoTab, kind |-> "completed"]>>,
                   updatedAt |-> 0]]}

NoOpenerResult == [done |-> FALSE, tab |-> EmptyMap, temp |-> EmptyMap]

OpenerInit ==
  /\ ConfIdle /\ StoreIdle /\ QueueIdle
  /\ rtEvents = <<>>
  /\ rtOut = FALSE
  /\ msIn = NoMapInput
  /\ msOut = "unset"
  /\ RiskIdle /\ WalkIdle /\ SignalIdle /\ ClassifyIdle /\ SvcIdle
  /\ opIn \in [tab : OpenerGraphs, temp : OpenerTemps, target : WalkTabs,
               source : WalkTabs, overwrite : BOOLEAN, now : {TTL_MS}]
  /\ opOut = NoOpenerResult

\* recordTabOpener(target, source, overwrite): session storage after the
\* call; only the tab graph key is set.
OpenerCall ==
  /\ ~opOut.done
  /\ opOut' = [done |-> TRUE,
               tab |-> recordTabOpener(opIn.tab, opIn.target, opIn.source,
                                       opIn.overwrite, opIn.now),
               temp |-> opIn.temp]
  /\ UNCHANGED <<confVars, storeVars, queueVars, rtEvents, rtOut, msIn, msOut,
                 riskIn, riskOut, walk, opIn, sigIn, sigOut, clsIn, clsOut,
                 svcVars>>

OpenerNext == OpenerCall

SpecOpener == OpenerInit /\ [][OpenerNext]_vars

----------------------------------------------------------------------------
(* Claims on record_opener *)

\* C26: after record_opener(target, source, overwrite) the target's opener
\* is source if the target had no node or no opener, and otherwise source
\* exactly when overwrite is true and the old opener when it is false; both
\* tabs have last-seen = now; a source that had no node (and is not the
\* target itself) has a bare node without opener; every other tab node and
\* the temporal graph are as before.
C26_OpenerContract ==
  opOut.done =>
    LET g == opIn.tab
        g2 == opOut.tab
        t == opIn.target
        s == opIn.source
    IN  /\ t \in DOMAIN g2 /\ s \in DOMAIN g2
        /\ g2[t].openerTabId =
             (IF t \notin DOMAIN g THEN s
              ELSE IF g[t].openerTabId = NoTab THEN s
              ELSE IF opIn.overwrite THEN s
              ELSE g[t].openerTabId)
        /\ g2[t].lastSeenAt = opIn.now
        /\ g2[s].lastSeenAt = opIn.now
        /\ (s \notin DOMAIN g /\ s # t) =>
             g2[s] = [openerTabId |-> NoTab, createdAt |-> opIn.now,
                      lastSeenAt |-> opIn.now]
        /\ (s \in DOMAIN g /\ s # t) => g2[s].openerTabId = g[s].openerTabId
        /\ DOMAIN g2 = DOMAIN g \cup {t, s}
        /\ \A x \in DOMAIN g \ {t, s} : g2[x] = g[x]
        /\ opOut.temp = opIn.temp

\* C26 witness: the target had another opener, overwrite was false, the
\* source was unknown and a third tab had a node.
C26_Witness ==
  /\ opOut.done
  /\ ~opIn.overwrite
  /\ opIn.target \in DOMAIN opIn.tab
  /\ opIn.tab[opIn.target].openerTabId \notin {NoTab, opIn.source, opIn.target}
  /\ opIn.source \notin DOMAIN opIn.tab
  /\ opOut.tab[opIn.target].openerTabId # opIn.source
  /\ opIn.temp # EmptyMap

(***************************************************************************)
(* Part H: Base heuristic                                                  *)
(***************************************************************************)

\* SIGNAL_CODES.DOM_SAML, the SAML-form code the classifier and the service
\* worker refer to.
DOM_SAML == "dom_saml"

\* SIGNAL_CODES
SIGNAL_CODES ==
  {"url_login", "url_signup", "url_account", "url_editor", "url_checkout",
   "dom_password", "dom_editor", "dom_payment", "passive_view", DOM_SAML}

TransactionCodes == {"url_checkout", "dom_payment"}
UgcCodes == {"url_editor", "dom_editor"}
AccountCodes == {"url_login", "url_signup", "url_account", "dom_password"}

\* Signal codes in one call of evaluateSignals.
MaxSignals == 3

Range(s) == {s[i] : i \in 1..Len(s)}

\* Array.from(new Set(signals)): each code once, in order of first occurrence.
uniqueSignals(signals) ==
  SelectSeq([i \in 1..Len(signals) |->
               IF \E j \in 1..(i - 1) : signals[j] = signals[i] THEN "" ELSE signals[i]],
            LAMBDA s : s # "")

matched(unique, codes) == SelectSeq(unique, LAMBDA s : s \in codes)

NoEstimation == [level |-> "unset", confidence |-> "unset", reasons |-> <<>>]

evaluateSignals_FirstSignal(signals) ==
  LET unique == uniqueSignals(signals)
      q == matched(unique, TransactionCodes \cup UgcCodes \cup AccountCodes)
  IN  IF q = <<>>
        THEN [level |-> "view", confidence |-> "high", reasons |-> <<"passive_view">>]
      ELSE IF q[1] \in TransactionCodes
        THEN [level |-> "transaction",
              confidence |-> IF Len(unique) > 1 THEN "high" ELSE "medium",
              reasons |-> matched(unique, TransactionCodes)]
      ELSE IF q[1] \in UgcCodes
        THEN [level |-> "ugc", confidence |-> "medium",
              reasons |-> matched(unique, UgcCodes)]
      ELSE [level |-> "account", confidence |-> "high",
            reasons |-> matched(unique, AccountCodes)]

\* evaluateSignals
evaluateSignals(signals) ==
  LET unique == uniqueSignals(signals)
      has(codes) == \E i \in 1..Len(unique) : unique[i] \in codes
  IN  IF has(TransactionCodes)
        THEN [level |-> "transaction",
              confidence |-> IF Len(unique) > 1 THEN "high" ELSE "medium",
              reasons |-> matched(unique, TransactionCodes)]
      ELSE IF has(UgcCodes)
        THEN [level |-> "ugc", confidence |-> "medium",
              reasons |-> matched(unique, UgcCodes)]
      ELSE IF has(AccountCodes)
        THEN [level |-> "account", confidence |-> "high",
              reasons |-> matched(unique, AccountCodes)]
      ELSE [level |-> "view", confidence |-> "high", reasons |-> <<"passive_view">>]

SignalInit ==
  /\ ConfIdle /\ StoreIdle /\ QueueIdle
  /\ rtEvents = <<>>
  /\ rtOut = FALSE
  /\ msIn = NoMapInput
  /\ msOut = "unset"
  /\ RiskIdle /\ WalkIdle /\ OpenerIdle /\ ClassifyIdle /\ SvcIdle
  /\ sigIn = <<>>
  /\ sigOut = NoEstimation

\* The heuristic is evaluated on a signal list one code longer.
Evaluate ==
  /\ Len(sigIn) < MaxSignals
  /\ \E s \in SIGNAL_CODES :
       /\ sigIn' = Append(sigIn, s)
       /\ sigOut' = evaluateSignals(sigIn')
  /\ UNCHANGED <<confVars, storeVars, queueVars, rtEvents, rtOut, msIn, msOut,
                 riskIn, riskOut, walk, opIn, opOut, clsIn, clsOut,
                 svcVars>>

SignalNext == Evaluate

SpecSignals == SignalInit /\ [][SignalNext]_vars

----------------------------------------------------------------------------
(* Claims on the base heuristic *)

\* The list with positions i and j exchanged, and with position i repeated.
Swapped(s, i, j) ==
  [k \in 1..Len(s) |-> IF k = i THEN s[j] ELSE IF k = j THEN s[i] ELSE s[k]]

\* Level, confidence bucket and the set of reason codes of an estimation.
Selected(est) == <<est.level, est.confidence, Range(est.reasons)>>

\* C28: the level is transaction if a checkout/payment code is present,
\* else ugc if an editor code is present, else account if a login, signup,
\* account or password code is present, else view; the selection is the
\* same for every reordering and every repetition of the codes.
C28_StrictPriority ==
  sigOut.level # "unset" =>
    LET S == Range(sigIn)
    IN  /\ sigOut.level =
             (IF S \cap TransactionCodes # {} THEN "transaction"
              ELSE IF S \cap UgcCodes # {} THEN "ugc"
              ELSE IF S \cap AccountCodes # {} THEN "account"
              ELSE "view")
        /\ \A i, j \in 1..Len(sigIn) :
             /\ Selected(evaluateSignals(Swapped(sigIn, i, j))) = Selected(sigOut)
             /\ Selected(evaluateSignals(Append(sigIn, sigIn[i]))) = Selected(sigOut)
             /\ Selected(evaluateSignals(<<sigIn[i]>> \o sigIn)) = Selected(sigOut)

\* C28 witness: an account code came first, then a payment code, then the
\* account code again.
C28_Witness ==
  /\ Len(sigIn) = 3
  /\ sigIn[1] \in AccountCodes
  /\ sigIn[2] \in TransactionCodes
  /\ sigIn[3] = sigIn[1]
  /\ sigOut.level = "transaction"

(***************************************************************************)
(* Part I: Classifier job                                                  *)
(*                                                                         *)
(* classify(url, explicitSignals, context). The URL enters through what    *)
(* the URL helpers read from it; the answers of the RP/IdP inference and   *)
(* of the risk model are inputs of the call.                               *)
(***************************************************************************)

\* Explicit signal lists handed to classify; two hold a code outside the
\* vocabulary.
ExplicitSignalLists ==
  {<<>>, <<DOM_SAML>>, <<"dom_payment", DOM_SAML>>, <<"dom_editor">>,
   <<"dom_password">>, <<"not_a_code">>, <<"not_a_code", "dom_payment">>}

\* extractUrlSignals(url)
UrlSignalLists == {<<>>, <<"url_checkout">>, <<"url_login">>, <<"url_account">>}

\* What detectOAuth reads from the URL: the number of core OAuth keys among
\* the query keys, whether the path is a strong auth path, whether the host
\* and the URL match a known IdP pattern.
UrlFeatures ==
  {[coreKeys |-> 0, strongPath |-> FALSE, idpDomain |-> FALSE, idpUrl |-> FALSE],
   [coreKeys |-> 1, strongPath |-> FALSE, idpDomain |-> FALSE, idpUrl |-> FALSE],
   [coreKeys |-> 2, strongPath |-> FALSE, idpDomain |-> FALSE, idpUrl |-> FALSE],
   [coreKeys |-> 0, strongPath |-> TRUE, idpDomain |-> FALSE, idpUrl |-> FALSE],
   [coreKeys |-> 0, strongPath |-> FALSE, idpDomain |-> TRUE, idpUrl |-> FALSE],
   [coreKeys |-> 0, strongPath |-> FALSE, idpDomain |-> FALSE, idpUrl |-> TRUE],
   [coreKeys |-> 2, strongPath |-> TRUE, idpDomain |-> TRUE, idpUrl |-> TRUE]}

\* EVIDENCE_WEIGHTS: one weight per evidence kind, in hundredths.
EVIDENCE_WEIGHTS == {[t \in EVIDENCE_TYPES |-> w] : w \in {10, 40, 100}}

\* inferRpFromRedirectUri(url) and inferRpFromOpener(tabId); "" is null.
RpAnswers ==
  {<<"", "">>, <<RpDomain, "">>, <<"", RpDomain>>, <<RpDomain, RpDomain>>,
   <<RpDomain, OtherDomain>>}

ClassifyInputs ==
  [explicitSignals : ExplicitSignalLists,
   urlSignals : UrlSignalLists,
   url : UrlFeatures,
   weights : EVIDENCE_WEIGHTS,
   rp : RpAnswers,
   idpCandidate : {"", IdpDomain},
   roundtrip : BOOLEAN,
   risk_score : {0, 100},
   visitCount : {200},
   isPinned : BOOLEAN]

\* detectOAuth: the evidence list; isOAuth is that the list is not empty.
detectOAuth(u) ==
  (IF u.coreKeys >= 2 THEN <<"oauth_params">> ELSE <<>>)
  \o (IF u.strongPath THEN <<"strong_path">> ELSE <<>>)
  \o (IF u.idpDomain THEN <<"known_idp">> ELSE <<>>)
  \o (IF u.idpUrl THEN <<"known_idp">> ELSE <<>>)

RECURSIVE addAll(_, _, _)
\* oauthResult.evidence.forEach(evType => addEvidenceOnce(...))
addAll(state, evidence, weights) ==
  IF evidence = <<>> THEN state
  ELSE addAll(addEvidenceOnce(state, Head(evidence), weights[Head(evidence)]),
              Tail(evidence), weights)

structuralLevel_KeepHigher(baseLevel) ==
  IF baseLevel \in {"transaction", "ugc"} THEN baseLevel ELSE "account"

\* 3.7 result.level = ActivityLevels.ACCOUNT
structuralLevel(baseLevel) == "account"

samlCap_None(confidence, hasSamlSignal, evidenceFlags) == confidence

\* SAML Cap
samlCap(confidence, hasSamlSignal, evidenceFlags) ==
  IF /\ hasSamlSignal
     /\ "temporal_chain" \notin evidenceFlags
     /\ "redirect_uri_match" \notin evidenceFlags
    THEN Min(confidence, 60)
    ELSE confidence

bucketOf_HighAbove(finalConfidence) ==
  IF finalConfidence > 80 THEN "high"
  ELSE IF finalConfidence >= 50 THEN "medium" ELSE "low"

\* finalConfidence >= 0.8 ? "high" : (finalConfidence >= 0.5 ? "medium" : "low")
bucketOf(finalConfidence) ==
  IF finalConfidence >= 80 THEN "high"
  ELSE IF finalConfidence >= 50 THEN "medium" ELSE "low"

\* The overlay branch: OAuth or SAML was detected.
structuralOverlay(in, result, hasSamlSignal, evidence) ==
  LET s0 == createConfidenceState
      s1 == addAll(s0, evidence, in.weights)
      s2 == IF hasSamlSignal THEN addEvidenceOnce(s1, "saml_form", 40) ELSE s1
      rpFromRedirect == in.rp[1]
      rpFromOpener == in.rp[2]
      rpCandidate == IF rpFromRedirect # "" THEN rpFromRedirect ELSE rpFromOpener
      s3 == IF rpFromRedirect # "" /\ rpFromOpener # "" /\ rpFromRedirect = rpFromOpener
              THEN addEvidenceOnce(s2, "redirect_uri_match",
                                   in.weights["redirect_uri_match"])
              ELSE s2
      s4 == IF rpFromOpener # ""
              THEN addEvidenceOnce(s3, "opener_link", in.weights["opener_link"])
              ELSE s3
      s5 == IF rpCandidate # "" /\ in.idpCandidate # "" /\ in.roundtrip
              THEN addEvidenceOnce(s4, "temporal_chain", in.weights["temporal_chain"])
              ELSE s4
      fin == finalizeConfidence(s5)
      finalConfidence == samlCap(fin.confidence, hasSamlSignal, fin.evidenceFlags)
  IN  [level |-> structuralLevel(result.level),
       confidence |-> bucketOf(finalConfidence),
       numericConfidence |-> finalConfidence,
       reasons |-> Append(result.reasons,
                          IF hasSamlSignal THEN "saml_detected" ELSE "oauth_detected"),
       hasFlags |-> TRUE,
       evidenceFlags |-> fin.evidenceFlags,
       rp_domain |-> rpCandidate,
       idp_domain |-> in.idpCandidate]

keywordGuard_NoDowngrade(in, result) ==
  [level |-> result.level, confidence |-> result.confidence,
   numericConfidence |-> IF result.confidence = "high" THEN 80
                         ELSE IF result.confidence = "medium" THEN 50 ELSE 30,
   reasons |-> result.reasons, hasFlags |-> FALSE, evidenceFlags |-> {},
   rp_domain |-> "", idp_domain |-> ""]

\* The other branch: the keyword guard and the numeric confidence tiers.
keywordGuard(in, result) ==
  LET weakUrlReasons == {"url_login", "url_account", "url_signup"}
      reliesOnlyOnWeakUrl == \A i \in 1..Len(result.reasons) :
                               result.reasons[i] \in weakUrlReasons
      hasDomSignals == \E i \in 1..Len(result.reasons) :
                         result.reasons[i] \in {"dom_password", "dom_editor",
                                                "dom_payment", DOM_SAML}
      plain == [level |-> result.level, confidence |-> result.confidence,
                numericConfidence |-> 0, reasons |-> result.reasons,
                hasFlags |-> FALSE, evidenceFlags |-> {},
                rp_domain |-> "", idp_domain |-> ""]
  IN  IF result.level = "account"
        THEN IF reliesOnlyOnWeakUrl /\ ~hasDomSignals
               THEN [plain EXCEPT !.level = "view", !.confidence = "low",
                                  !.numericConfidence = 30,
                                  !.reasons = <<"passive_view", "ambiguous_auth_keyword">>]
               ELSE [plain EXCEPT !.numericConfidence =
                                     IF result.confidence = "high" THEN 80 ELSE 50]
        ELSE [plain EXCEPT !.numericConfidence =
                              IF result.confidence = "high" THEN 80
                              ELSE IF result.confidence = "medium" THEN 50 ELSE 30]

NoClassification ==
  [level |-> "unset", confidence |-> "unset", numericConfidence |-> 0,
   reasons |-> <<>>, hasFlags |-> FALSE, evidenceFlags |-> {}, rp_domain |-> "",
   idp_domain |-> "", risk_score |-> 0, management_state |-> "unset",
   baseLevel |-> "unset"]

validatedSignals_KeepAll(explicitSignals) == explicitSignals

\* explicitSignals.filter(signal => knownCodes.has(signal))
validatedSignals(explicitSignals) ==
  SelectSeq(explicitSignals, LAMBDA s : s \in SIGNAL_CODES)

\* classify: the estimation, and beside it the level evaluateSignals chose.
classify(in) ==
  LET validated == validatedSignals(in.explicitSignals)
      hasSamlSignal == DOM_SAML \in Range(validated)
      allSignals == in.urlSignals \o validated
      result == evaluateSignals(allSignals)
      evidence == detectOAuth(in.url)
      r == IF evidence # <<>> \/ hasSamlSignal
             THEN structuralOverlay(in, result, hasSamlSignal, evidence)
             ELSE keywordGuard(in, result)
  IN  [level |-> r.level, confidence |-> r.confidence,
       numericConfidence |-> r.numericConfidence, reasons |-> r.reasons,
       hasFlags |-> r.hasFlags, evidenceFlags |-> r.evidenceFlags,
       rp_domain |-> r.rp_domain, idp_domain |-> r.idp_domain,
       risk_score |-> in.risk_score,
       management_state |->
         mapToManagementState([level |-> r.level, score |-> in.risk_score,
                               confidence |-> r.numericConfidence,
                               rp_domain |-> r.rp_domain,
                               evidenceFlags |-> r.evidenceFlags,
                               seenCount |-> in.visitCount,
                               isPinned |-> in.isPinned]),
       baseLevel |-> result.level]

ClassifyInit ==
  /\ ConfIdle /\ StoreIdle /\ QueueIdle
  /\ rtEvents = <<>>
  /\ rtOut = FALSE
  /\ msIn = NoMapInput
  /\ msOut = "unset"
  /\ RiskIdle /\ WalkIdle /\ OpenerIdle /\ SignalIdle /\ SvcIdle
  /\ clsIn \in ClassifyInputs
  /\ clsOut = NoClassification

\* One call of classify returns its estimation.
Classify ==
  /\ clsOut.level = "unset"
  /\ clsOut' = classify(clsIn)
  /\ UNCHANGED <<confVars, storeVars, queueVars, rtEvents, rtOut, msIn, msOut,
                 riskIn, riskOut, walk, opIn, opOut, sigIn, sigOut, clsIn,
                 svcVars>>

ClassifyNext == Classify

SpecClassify == ClassifyInit /\ [][ClassifyNext]_vars

----------------------------------------------------------------------------
(* Claims on the classifier job *)

\* What the call was given: the SAML-form code, a positive OAuth detection.
SamlPresent == DOM_SAML \in Range(clsIn.explicitSignals)
OAuthFired ==
  \/ clsIn.url.coreKeys >= 2
  \/ clsIn.url.strongPath
  \/ clsIn.url.idpDomain
  \/ clsIn.url.idpUrl

\* C29: an estimation made with the SAML-form signal whose evidence flags
\* hold neither redirect_uri_match nor temporal_chain has level account,
\* numeric confidence at most 0.6, a bucket other than high, and a
\* management state other than suggested.
C29_SamlOnlyNotHigh ==
  ( /\ clsOut.level # "unset"
    /\ SamlPresent
    /\ "redirect_uri_match" \notin clsOut.evidenceFlags
    /\ "temporal_chain" \notin clsOut.evidenceFlags )
  => /\ clsOut.level = "account"
     /\ clsOut.numericConfidence <= 60
     /\ clsOut.confidence # "high"
     /\ clsOut.management_state # "suggested"

\* C29 witness: SAML together with OAuth evidence and an opener link whose
\* weights alone reach 1.0, an RP domain known, not pinned: capped at 0.6.
C29_Witness ==
  /\ clsOut.level = "account"
  /\ SamlPresent
  /\ ~clsIn.isPinned
  /\ clsIn.weights["strong_path"] = 100
  /\ {"saml_form", "strong_path", "opener_link"} \subseteq clsOut.evidenceFlags
  /\ "temporal_chain" \notin clsOut.evidenceFlags
  /\ "redirect_uri_match" \notin clsOut.evidenceFlags
  /\ clsOut.rp_domain # ""
  /\ clsOut.numericConfidence = 60
  /\ clsOut.confidence = "medium"

\* C30: when OAuth/OIDC detection fires or the SAML-form signal is present
\* the estimation has level account, whatever evaluateSignals chose, and
\* its evidence flags are the finalized flags of the accumulator: the kinds
\* that were added, no other.
C30_StructuralForcesAccount ==
  (clsOut.level # "unset" /\ (OAuthFired \/ SamlPresent)) =>
    /\ clsOut.level = "account"
    /\ clsOut.hasFlags
    /\ clsOut.evidenceFlags =
         {t \in EVIDENCE_TYPES :
            \/ t = "oauth_params" /\ clsIn.url.coreKeys >= 2
            \/ t = "strong_path" /\ clsIn.url.strongPath
            \/ t = "known_idp" /\ (clsIn.url.idpDomain \/ clsIn.url.idpUrl)
            \/ t = "saml_form" /\ SamlPresent
            \/ t = "redirect_uri_match" /\ clsIn.rp[1] # "" /\ clsIn.rp[1] = clsIn.rp[2]
            \/ t = "opener_link" /\ clsIn.rp[2] # ""
            \/ t = "temporal_chain" /\ clsIn.roundtrip /\ clsIn.idpCandidate # ""
                 /\ (clsIn.rp[1] # "" \/ clsIn.rp[2] # "")}

\* C30 witness: the base heuristic chose transaction and OAuth fired.
C30_Witness ==
  /\ clsOut.level = "account"
  /\ clsOut.baseLevel = "transaction"
  /\ OAuthFired
  /\ ~SamlPresent
  /\ "oauth_params" \in clsOut.evidenceFlags

\* The known codes the base heuristic was given in this call.
KnownGiven ==
  Range(clsIn.urlSignals) \cup (Range(clsIn.explicitSignals) \cap SIGNAL_CODES)

\* The base heuristic selected account: no transaction or editor code, and
\* at least one account code.
BaseIsAccount ==
  /\ KnownGiven \cap (TransactionCodes \cup UgcCodes) = {}
  /\ KnownGiven \cap AccountCodes # {}

\* C31: without OAuth and without SAML, an account selection whose reasons
\* are only url_login, url_signup or url_account becomes level view with
\* confidence low, numeric confidence 0.3 and the ambiguous-keyword reason;
\* with dom_password among the reasons the level stays account.
C31_KeywordGuard ==
  (clsOut.level # "unset" /\ ~OAuthFired /\ ~SamlPresent /\ BaseIsAccount) =>
    /\ clsOut.baseLevel = "account"
    /\ IF "dom_password" \in KnownGiven
         THEN /\ clsOut.level = "account"
              /\ "dom_password" \in Range(clsOut.reasons)
         ELSE /\ clsOut.level = "view"
              /\ clsOut.confidence = "low"
              /\ clsOut.numericConfidence = 30
              /\ "ambiguous_auth_keyword" \in Range(clsOut.reasons)
              /\ Range(clsOut.reasons) \cap AccountCodes = {}

\* C31 witness: a login URL with no DOM code was downgraded to view.
C31_Witness ==
  /\ ~OAuthFired
  /\ ~SamlPresent
  /\ clsIn.urlSignals = <<"url_login">>
  /\ clsIn.explicitSignals = <<>>
  /\ clsOut.baseLevel = "account"
  /\ clsOut.level = "view"
  /\ clsOut.reasons = <<"passive_view", "ambiguous_auth_keyword">>

\* A signal list restricted to the codes of the vocabulary.
KnownOnly(S) == SelectSeq(S, LAMBDA s : s \in SIGNAL_CODES)

\* C32: classifying with an explicit signal list gives the estimation that
\* classifying with the list restricted to known codes gives; the call
\* returns an estimation with one of the four levels.
C32_UnknownCodesDropped ==
  clsOut.level # "unset" =>
    /\ clsOut = classify([clsIn EXCEPT !.explicitSignals = KnownOnly(@)])
    /\ clsOut.level \in {"view", "account", "ugc", "transaction"}
    /\ Range(clsOut.reasons) \cap Range(clsIn.explicitSignals) \subseteq SIGNAL_CODES

\* C32 witness: an unknown code came with a payment code and nothing else;
\* the estimation is the one of the payment code alone.
C32_Witness ==
  /\ clsIn.explicitSignals = <<"not_a_code", "dom_payment">>
  /\ clsIn.urlSignals = <<>>
  /\ ~OAuthFired
  /\ clsOut.level = "transaction"
  /\ clsOut.confidence = "medium"
  /\ clsOut.reasons = <<"dom_payment">>

(***************************************************************************)
(* Part J: Activity state repository                                       *)
(*                                                                         *)
(* updateActivityState(domain, estimation, timestamp, storageAPI). Its     *)
(* three callers run on updateQueue, so one call is one step.              *)
(***************************************************************************)

ActDomains == {RpDomain, IdpDomain}

\* Calls of updateActivityState in one behaviour.
MaxActUpdates == 3

\* Date.now() at the callers, in milliseconds: four readings 5 s apart.
ActTimestamps == {1000000 + 5000 * k : k \in 0..3}

\* stateMap[domain] || { ... }
activityRecord(stateMap, domain) ==
  IF domain \in DOMAIN stateMap THEN stateMap[domain]
  ELSE [domain |-> domain,
        last_estimation_level |-> "view",
        last_estimation_ts |-> 0,
        counts_by_level |-> [l \in ActivityLevels |-> 0],
        last_account_touch_ts |-> 0,
        last_transaction_signal_ts |-> 0]

isReclassification_Never(timestamp, record) == FALSE

\* const isReclassification = (timestamp - record.last_estimation_ts < 10000)
isReclassification(timestamp, record) ==
  timestamp - record.last_estimation_ts < 10000

\* updateActivityState: the state map it saves.
updateActivityState(stateMap, domain, level, timestamp) ==
  LET record == activityRecord(stateMap, domain)
      old == record.last_estimation_level
      c0 == record.counts_by_level
      dec == IF c0[old] > 0 THEN [c0 EXCEPT ![old] = @ - 1] ELSE c0
      counts == IF isReclassification(timestamp, record)
                  THEN IF old # level THEN [dec EXCEPT ![level] = @ + 1] ELSE c0
                  ELSE [c0 EXCEPT ![level] = @ + 1]
  IN  Put(stateMap, domain,
          [record EXCEPT
             !.counts_by_level = counts,
             !.last_estimation_level = level,
             !.last_estimation_ts = timestamp,
             !.last_account_touch_ts = IF level = "account" THEN timestamp ELSE @,
             !.last_transaction_signal_ts =
                IF level = "transaction" THEN timestamp ELSE @])

ActivityInit ==
  /\ ConfIdle /\ StoreIdle /\ QueueIdle
  /\ rtEvents = <<>>
  /\ rtOut = FALSE
  /\ msIn = NoMapInput
  /\ msOut = "unset"
  /\ RiskIdle /\ WalkIdle /\ OpenerIdle /\ SignalIdle /\ ClassifyIdle
  /\ ActivityIdle /\ WorkerIdle

\* One unit of the queue hands an estimation to updateActivityState.
UpdateActivity ==
  /\ actN < MaxActUpdates
  /\ \E domain \in ActDomains, level \in ActivityLevels, timestamp \in ActTimestamps :
       /\ actMap' = updateActivityState(actMap, domain, level, timestamp)
       /\ actIn' = [domain |-> domain, level |-> level, timestamp |-> timestamp]
  /\ actN' = actN + 1
  /\ UNCHANGED <<confVars, storeVars, queueVars, rtEvents, rtOut, msIn, msOut,
                 riskIn, riskOut, walk, opIn, opOut, sigIn, sigOut, clsIn, clsOut,
                 workerVars>>

ActivityNext == UpdateActivity

SpecActivity == ActivityInit /\ [][ActivityNext]_vars

----------------------------------------------------------------------------
(* Claims on the activity state repository *)

RECURSIVE SumOver(_, _)
SumOver(f, S) ==
  IF S = {} THEN 0
  ELSE LET x == CHOOSE y \in S : TRUE IN f[x] + SumOver(f, S \ {x})

\* The sum of counts_by_level of a domain; 0 when it has no record.
CountSum(stateMap, domain) ==
  IF domain \in DOMAIN stateMap
    THEN SumOver(stateMap[domain].counts_by_level, ActivityLevels)
    ELSE 0

\* C33: an update whose timestamp is less than 10 s after the last
\* estimation of its domain leaves the sum of counts_by_level unchanged,
\* and when the level changed it takes one count from the previous level
\* and gives one to the new level; any other update adds exactly 1 to the
\* sum; no bucket is negative.
C33_ReclassifyAdjusts ==
  /\ [][actN' = actN + 1 =>
          LET d == actIn'.domain
              had == d \in DOMAIN actMap
              inWindow == had /\ actIn'.timestamp < actMap[d].last_estimation_ts + 10000
          IN  /\ \A o \in ActDomains \ {d} : CountSum(actMap', o) = CountSum(actMap, o)
              /\ IF inWindow
                   THEN LET old == actMap[d].last_estimation_level
                            new == actIn'.level
                            c == actMap[d].counts_by_level
                            c2 == actMap'[d].counts_by_level
                        IN  /\ CountSum(actMap', d) = CountSum(actMap, d)
                            /\ IF old = new THEN c2 = c
                               ELSE c2 = [c EXCEPT ![old] = @ - 1, ![new] = @ + 1]
                   ELSE CountSum(actMap', d) = CountSum(actMap, d) + 1]_vars
  /\ [](\A d \in DOMAIN actMap, l \in ActivityLevels :
          actMap[d].counts_by_level[l] >= 0)

\* C33 witness: the second update of a domain came 5 s after the first with
\* another level: the count moved from view to account.
C33_Witness ==
  /\ actN = 2
  /\ actIn = [domain |-> RpDomain, level |-> "account", timestamp |-> 1005000]
  /\ RpDomain \in DOMAIN actMap
  /\ IdpDomain \notin DOMAIN actMap
  /\ actMap[RpDomain].counts_by_level =
       [l \in ActivityLevels |-> IF l = "account" THEN 1 ELSE 0]
  /\ actMap[RpDomain].last_account_touch_ts = 1005000

(***************************************************************************)
(* Part D, continued: the round-trip detector and the order of its input   *)
(***************************************************************************)

\* Exchanging positions i and j keeps every two events with equal
\* timestamps in their relative order.
KeepsTieOrder(s, i, j) ==
  /\ s[i].ts # s[j].ts
  /\ \A k \in (Min(i, j) + 1)..(Max(i, j) - 1) : s[k].ts # s[i].ts /\ s[k].ts # s[j].ts

\* C34 as stated: every reordering of the events on record, lists with
\* equal timestamps included, gives the result the detector gave.
C34_AnyOrderSameResult ==
  \A i, j \in 1..Len(rtEvents) :
    isRoundtrip(RpDomain, IdpDomain, Swapped(rtEvents, i, j), RT_TTL_MS) = rtOut

\* C34, amended: every reordering that keeps events with equal timestamps
\* in the order the caller supplied them gives the same result, so the
\* result of a list with pairwise distinct timestamps depends only on its
\* set of events; the result is the one of the list sorted by timestamp
\* with ties in caller order, and the caller's list is left as supplied.
C34_OrderMattersOnlyForTies ==
  /\ [](/\ rtOut = isRoundtrip(RpDomain, IdpDomain, sortByTs(rtEvents), RT_TTL_MS)
        /\ \A i \in 1..Len(rtEvents) : \A j \in (i + 1)..Len(rtEvents) :
             KeepsTieOrder(rtEvents, i, j) =>
               isRoundtrip(RpDomain, IdpDomain, Swapped(rtEvents, i, j), RT_TTL_MS)
                 = rtOut)
  /\ [][SubSeq(rtEvents', 1, Len(rtEvents)) = rtEvents]_vars

\* C34 witness: three events with distinct timestamps supplied with the
\* IdP visit first were accepted.
C34_Witness ==
  /\ Len(rtEvents) = 3
  /\ \A i, j \in 1..3 : i # j => rtEvents[i].ts # rtEvents[j].ts
  /\ rtEvents[1].domain = IdpDomain
  /\ rtEvents[1].ts > rtEvents[3].ts
  /\ rtOut

----------------------------------------------------------------------------
(* The detector on the event list of one context, as the session store     *)
(* holds it: events in order of arrival, timestamps never decreasing.      *)

\* Events in one context handed to isRoundtrip.
MaxPairEvents == 5

\* Two visits of the IdP 40 s apart, each with an RP visit 100 ms before
\* and 100 ms after.
PairTimes == {0, 100, 200, 40000, 40100, 40200}

PairEvents ==
  {[ts |-> t, domain |-> RpDomain, tabId |-> x[1], openerTabId |-> x[2]] :
     t \in PairTimes, x \in {<<1, NoTab>>, <<2, NoTab>>}}
  \cup {[ts |-> t, domain |-> IdpDomain, tabId |-> 1, openerTabId |-> NoTab] :
          t \in PairTimes}

RtPairInit == ConfIdle /\ StoreIdle /\ QueueIdle /\ FnIdle

\* The next event of the context arrives and the detector is consulted.
RtPairCheck ==
  /\ Len(rtEvents) < MaxPairEvents
  /\ \E e \in PairEvents :
       /\ IF rtEvents = <<>> THEN TRUE ELSE rtEvents[Len(rtEvents)].ts <= e.ts
       /\ rtEvents' = Append(rtEvents, e)
       /\ rtOut' = isRoundtrip(RpDomain, IdpDomain, rtEvents', RT_TTL_MS)
  /\ UNCHANGED <<confVars, storeVars, queueVars, msIn, msOut, callVars>>

RtPairNext == RtPairCheck

SpecRtPair == RtPairInit /\ [][RtPairNext]_vars

\* Positions of the IdP events that directly follow an RP event, and of the
\* RP events behind position f.
ForwardLegs == {i \in 2..Len(rtEvents) :
                  rtEvents[i].domain = IdpDomain /\ rtEvents[i - 1].domain = RpDomain}
BackwardLegs(f) == {j \in (f + 1)..Len(rtEvents) : rtEvents[j].domain = RpDomain}

\* The pair f, b is inside the ttl and passes the tab-linkage guard.
PairPasses(f, b) ==
  LET fe == rtEvents[f]
      be == rtEvents[b]
  IN  /\ be.ts - fe.ts <= RT_TTL_MS
      /\ \/ fe.tabId = NoTab
         \/ be.tabId = NoTab
         \/ fe.tabId = be.tabId
         \/ be.openerTabId = fe.tabId
         \/ fe.openerTabId = be.tabId

\* C35: the result is decided by one pair, the earliest IdP event directly
\* preceded by an RP event and the earliest RP event after it: without such
\* a pair the result is false, otherwise it is true exactly if this pair is
\* inside the ttl and passes the tab-linkage guard, whatever later pairs
\* would do.
C35_SinglePairDecides ==
  IF ForwardLegs = {} THEN ~rtOut
  ELSE LET f == CHOOSE i \in ForwardLegs : \A k \in ForwardLegs : i <= k
       IN  IF BackwardLegs(f) = {} THEN ~rtOut
           ELSE LET b == CHOOSE j \in BackwardLegs(f) : \A k \in BackwardLegs(f) : j <= k
                IN  rtOut <=> PairPasses(f, b)

\* C35 witness: the first pair is 39.9 s apart and the result is false,
\* although a later RP, IdP, RP sequence on one tab lies within 100 ms.
C35_Witness ==
  /\ ~rtOut
  /\ Len(rtEvents) = 5
  /\ ForwardLegs = {2, 4}
  /\ BackwardLegs(2) = {3, 5}
  /\ rtEvents[3].ts - rtEvents[2].ts > RT_TTL_MS
  /\ PairPasses(4, 5)
  /\ \A i \in 3..5 : rtEvents[i].tabId = 1

(***************************************************************************)
(* Part G, continued: tab teardown in an opener chain                      *)
(*                                                                         *)
(* The store operations of Part B on three tabs, as the service worker     *)
(* issues them: onCreatedNavigationTarget records the opener with          *)
(* overwrite, navigation events record a page address, tabs.onRemoved      *)
(* runs handleTabRemoval. The clock stands still.                          *)
(***************************************************************************)

\* A chain of three tabs: a root, an intermediate tab and a leaf.
TearTabs == {1, 2, 3}

\* Store operations in one behaviour.
MaxTearOps == 4

TearInit ==
  /\ ConfIdle /\ QueueIdle /\ FnIdle
  /\ tabGraph = EmptyMap
  /\ tempGraph = EmptyMap
  /\ now = TTL_MS
  /\ ops = 0
  /\ hist = EmptyMap
  /\ lastOp = NoOp

\* onCreatedNavigationTarget: recordTabOpener(details.tabId, details.sourceTabId, true)
TearOpener ==
  /\ ops < MaxTearOps
  /\ ops' = ops + 1
  /\ \E target \in TearTabs, source \in TearTabs :
       /\ target # source
       /\ tabGraph' = recordTabOpener(tabGraph, target, source, TRUE, now)
       /\ lastOp' = [op |-> "recordOpener", tab |-> target, wrote |-> TRUE,
                     rejected |-> FALSE]
  /\ UNCHANGED <<tempGraph, hist, now, confVars, queueVars, fnVars>>

\* onCompleted: recordTemporalEvent({tabId, url, kind: COMPLETED})
TearEvent ==
  /\ ops < MaxTearOps
  /\ ops' = ops + 1
  /\ \E tabId \in TearTabs :
       LET r == recordTemporalEvent(tabGraph, tempGraph, tabId, GoodUrl, "completed", now)
       IN  /\ tabGraph' = r.tab
           /\ tempGraph' = r.temp
           /\ hist' = Put(hist, r.ctx,
                          Append(IF r.ctx \in DOMAIN tempGraph THEN hist[r.ctx] ELSE <<>>,
                                 r.ev))
           /\ lastOp' = [op |-> "recordEvent", tab |-> tabId, wrote |-> r.wrote,
                         rejected |-> FALSE]
  /\ UNCHANGED <<now, confVars, queueVars, fnVars>>

\* tabs.onRemoved: handleTabRemoval(tabId)
TearRemove ==
  /\ ops < MaxTearOps
  /\ ops' = ops + 1
  /\ \E tabId \in TearTabs :
       LET r == handleTabRemoval(tabGraph, tempGraph, tabId, now)
       IN  /\ tabGraph' = r.tab
           /\ tempGraph' = r.temp
           /\ hist' = HistAfter(hist, tempGraph')
           /\ lastOp' = [op |-> "tabRemoved", tab |-> tabId, wrote |-> TRUE,
                         rejected |-> FALSE]
  /\ UNCHANGED <<now, confVars, queueVars, fnVars>>

TearNext == TearOpener \/ TearEvent \/ TearRemove

SpecTeardown == TearInit /\ [][TearNext]_vars

\* The tabs the walk of resolveContextId visits from tabId.
RECURSIVE chainOf(_, _, _)
chainOf(tabId, graph, visited) ==
  IF tabId \in visited THEN visited
  ELSE IF tabId \notin DOMAIN graph THEN visited \cup {tabId}
  ELSE IF graph[tabId].openerTabId = NoTab THEN visited \cup {tabId}
  ELSE chainOf(graph[tabId].openerTabId, graph, visited \cup {tabId})

\* C36: when the node of a tab is removed, every remaining tab whose opener
\* chain passed through that tab resolves to the context id it resolved to
\* before, and the context it reads is the one it read before.
C36_TeardownKeepsContext ==
  [][lastOp'.op = "tabRemoved" =>
       \A t \in DOMAIN tabGraph' :
         (t # lastOp'.tab /\ lastOp'.tab \in chainOf(t, tabGraph, {})) =>
           resolveContextId(t, tabGraph', {}) = resolveContextId(t, tabGraph, {})]_vars

----------------------------------------------------------------------------
(* Claims on the update queue, continued *)

\* C37: when the RESET_ALL unit completes the session store is empty: no
\* write of an earlier unit and no write of a cleanup in flight has put
\* data from before the reset back behind the reset's clear.
C37_ResetLeavesStoreEmpty ==
  [][\A id \in DOMAIN running :
       (running[id].kind = "reset" /\ id \in DOMAIN status' /\ status'[id] = "done")
         => (tabGraph' = EmptyMap /\ tempGraph' = EmptyMap)]_vars


(***************************************************************************)
(* Part K: Units of updateQueue on the durable store                       *)
(*                                                                         *)
(* The navigation, signal and override units of the service worker, on the *)
(* durable buckets they read and write.  A unit starts when the previous   *)
(* link of updateQueue has settled, reads, and then does all its writes.   *)
(* The activity level stands for what classify returns for the unit's url  *)
(* and signals.                                                            *)
(***************************************************************************)

MaxWorkerUnits == 2
MaxWorkerTicks == 2
\* settings.maxEvents, scaled down.
maxEvents == 2
\* Date.now() advances by one second, or by the width of the burst window.
WorkerTicks == {1000, 2000}

NoFlag == ""
\* The units that can be put on updateQueue: main-frame navigations of both
\* domains, a sub-frame navigation, a DOM signal, a SAML form signal and
\* SET_OVERRIDE with one flag set.
WorkerUnits ==
  {[kind |-> "nav", domain |-> RpDomain, frameId |-> 0, level |-> l,
    flag |-> NoFlag] : l \in {"view", "account"}}
  \cup {[kind |-> "nav", domain |-> IdpDomain, frameId |-> 0, level |-> "view",
         flag |-> NoFlag]}
  \cup {[kind |-> "nav", domain |-> RpDomain, frameId |-> 1, level |-> "view",
         flag |-> NoFlag]}
  \cup {[kind |-> "signal", domain |-> RpDomain, frameId |-> 0,
         level |-> "transaction", flag |-> NoFlag]}
  \cup {[kind |-> "saml", domain |-> RpDomain, frameId |-> 0, level |-> "account",
         flag |-> NoFlag]}
  \cup {[kind |-> "override", domain |-> RpDomain, frameId |-> 0, level |-> "view",
         flag |-> f] : f \in {"ignored", "whitelisted"}}

\* Dedupe (Burst Prevention: < 2s)
dedupe(events, domain, timestamp) ==
  IF events = <<>> THEN FALSE
  ELSE events[1].domain = domain /\ timestamp - events[1].ts < 2000

\* [newEvent, ...events].slice(0, settings.maxEvents)
storeEvent(events, domain, timestamp) ==
  LET all == <<[ts |-> timestamp, domain |-> domain]>> \o events
  IN  SubSeq(all, 1, Min(Len(all), maxEvents))

\* updateDomainState: the state map it saves.
updateDomainState(stateMap, domain, timestamp) ==
  LET record == IF domain \in DOMAIN stateMap THEN stateMap[domain]
                ELSE [first_seen |-> timestamp, last_seen |-> 0,
                      visit_count_total |-> 0]
  IN  Put(stateMap, domain,
          [record EXCEPT !.last_seen = timestamp,
                         !.visit_count_total = @ + 1])

currentVisitCount_NoRefresh(domainStates, domain) ==
  IF domain \in DOMAIN domainStates THEN domainStates[domain].visit_count_total
  ELSE 0

\* const currentVisitCount = (domainStates[domain]?.visit_count_total || 0) + 1
currentVisitCount(domainStates, domain) ==
  (IF domain \in DOMAIN domainStates THEN domainStates[domain].visit_count_total
   ELSE 0) + 1

NoOverride ==
  [ignored |-> FALSE, whitelisted |-> FALSE, pinned |-> FALSE,
   category |-> NoCategory]

\* updateUserOverride: { ...current, ...partial } for the domain.
updateUserOverride(overrides, domain, flag) ==
  LET current == IF domain \in DOMAIN overrides THEN overrides[domain]
                 ELSE NoOverride
  IN  Put(overrides, domain, [current EXCEPT ![flag] = TRUE])

\* 1. Fetch Dependencies: what updateRiskForDomain reads for its domain.
riskInputOf(loc, act, domain) ==
  LET override == IF domain \in DOMAIN loc.overrides THEN loc.overrides[domain]
                  ELSE NoOverride
  IN  [level |-> IF domain \in DOMAIN act THEN act[domain].last_estimation_level
                 ELSE NoLevel,
       visit_count_total |->
         IF domain \in DOMAIN loc.domainState
           THEN loc.domainState[domain].visit_count_total ELSE 0,
       category |-> override.category,
       ignored |-> override.ignored,
       whitelisted |-> override.whitelisted,
       pinned |-> override.pinned]

\* updateRiskRecord: the risk map it saves.
updateRiskRecord(riskMap, domain, record) == Put(riskMap, domain, record)

\* performRetentionCheck: the buckets it leaves.
performRetentionCheck(loc, t, force) ==
  IF ~force /\ t - loc.policy.last_cleanup_ts < 6 * 60 * 60 * 1000
    THEN loc
    ELSE
      LET evCutoff == t - loc.policy.raw_events_ttl_days * 86400000
          domCutoff == t - loc.policy.prune_inactive_domains_days * 86400000
          events == IF loc.policy.raw_events_ttl_days > 0
                      THEN SelectSeq(loc.events, LAMBDA e : e.ts >= evCutoff)
                      ELSE loc.events
          kept == IF loc.policy.prune_inactive_domains_days > 0
                    THEN {d \in DOMAIN loc.domainState :
                            ~(loc.domainState[d].last_seen < domCutoff)}
                    ELSE DOMAIN loc.domainState
      IN  [loc EXCEPT !.events = events,
                      !.domainState = [d \in kept |-> loc.domainState[d]],
                      !.policy.last_cleanup_ts = t]

onCompletedSteps_RiskFirst ==
  <<"updateRiskForDomain", "storeEvent", "updateDomainState", "updateActivityState",
    "performRetentionCheck">>

\* The writes of the navigation unit, in the order of the code: A, B, C, D, F.
onCompletedSteps ==
  <<"storeEvent", "updateDomainState", "updateActivityState", "updateRiskForDomain",
    "performRetentionCheck">>

\* The writes of the ACTIVITY_SIGNAL and SAML_FORM_SIGNAL units.
signalSteps == <<"updateActivityState", "updateRiskForDomain">>

\* The writes of the SET_OVERRIDE unit.
overrideSteps == <<"updateUserOverride", "updateRiskForDomain">>

\* One awaited call of a unit, on the buckets as they are when it runs; data
\* is what the unit read when it started, t its timestamp.
applyStep(step, st, u, data, t) ==
  CASE step = "storeEvent" ->
         [st EXCEPT !.local.events = storeEvent(data.events, u.domain, t)]
    [] step = "updateDomainState" ->
         [st EXCEPT !.local.domainState = updateDomainState(@, u.domain, t)]
    [] step = "updateActivityState" ->
         [st EXCEPT !.act = updateActivityState(@, u.domain, u.level, t)]
    [] step = "updateUserOverride" ->
         [st EXCEPT !.local.overrides = updateUserOverride(@, u.domain, u.flag)]
    [] step = "updateRiskForDomain" ->
         [st EXCEPT !.local.risk =
            updateRiskRecord(@, u.domain,
              updateRiskForDomain(riskInputOf(st.local, st.act, u.domain)))]
    [] step = "performRetentionCheck" ->
         [st EXCEPT !.local = performRetentionCheck(@, t, FALSE)]

RECURSIVE runSteps(_, _, _, _, _)
runSteps(steps, st, u, data, t) ==
  IF steps = <<>> THEN st
  ELSE runSteps(Tail(steps), applyStep(Head(steps), st, u, data, t), u, data, t)

\* What the unit leaves and how it returned.
runUnit(u, data, st, t) ==
  CASE u.kind = "nav" ->
         IF u.frameId # 0 THEN [st |-> st, outcome |-> "subframe", visitCount |-> 0]
         ELSE IF ~data.collectionEnabled
           THEN [st |-> st, outcome |-> "disabled", visitCount |-> 0]
         ELSE IF dedupe(data.events, u.domain, t)
           THEN [st |-> st, outcome |-> "deduped", visitCount |-> 0]
         ELSE [st |-> runSteps(onCompletedSteps, st, u, data, t),
               outcome |-> "updated",
               visitCount |-> currentVisitCount(data.domainState, u.domain)]
    [] u.kind \in {"signal", "saml"} ->
         IF ~data.collectionEnabled
           THEN [st |-> st, outcome |-> "disabled", visitCount |-> 0]
           ELSE [st |-> runSteps(signalSteps, st, u, data, t),
                 outcome |-> "updated", visitCount |-> 0]
    [] u.kind = "override" ->
         [st |-> runSteps(overrideSteps, st, u, data, t),
          outcome |-> "updated", visitCount |-> 0]

\* The buckets of a profile that has been in use: the IdP domain was last
\* seen more than a day ago, the RP domain an hour ago or never; events and
\* inactive domains are kept for one day and no cleanup has run yet.
WorkerInit ==
  /\ ConfIdle /\ StoreIdle /\ QueueIdle
  /\ rtEvents = <<>>
  /\ rtOut = FALSE
  /\ msIn = NoMapInput
  /\ msOut = "unset"
  /\ RiskIdle /\ WalkIdle /\ OpenerIdle /\ SignalIdle /\ ClassifyIdle
  /\ ActivityIdle
  /\ clock = 200000000
  /\ \E known \in BOOLEAN :
       local =
         [DefaultLocal EXCEPT
            !.domainState =
               IF known
                 THEN (IdpDomain :> [first_seen |-> 100000000,
                                     last_seen |-> 100000000,
                                     visit_count_total |-> 50])
                      @@ (RpDomain :> [first_seen |-> 100000000,
                                       last_seen |-> 196400000,
                                       visit_count_total |-> 200])
                 ELSE (IdpDomain :> [first_seen |-> 100000000,
                                     last_seen |-> 100000000,
                                     visit_count_total |-> 50]),
            !.policy = [raw_events_ttl_days |-> 1,
                        prune_inactive_domains_days |-> 1,
                        last_cleanup_ts |-> 0]]
  /\ wRun = EmptyMap
  /\ wN = 0
  /\ wTicks = 0
  /\ unit = NoUnit

workerRest ==
  <<confVars, storeVars, queueVars, rtEvents, rtOut, msIn, msOut,
    riskIn, riskOut, walk, opIn, opOut, sigIn, sigOut, clsIn, clsOut>>

\* updateQueue = updateQueue.then(async () => {...}): the unit starts and does
\* its first read.
WorkerStart ==
  /\ wN < MaxWorkerUnits
  /\ CanStart(wRun)
  /\ \E u \in WorkerUnits :
       wRun' = Put(wRun, wN + 1, [u |-> u, data |-> local])
  /\ wN' = wN + 1
  /\ UNCHANGED <<workerRest, actMap, actN, actIn, local, clock, wTicks, unit>>

\* The started unit runs to its return.
WorkerFinish ==
  \E id \in DOMAIN wRun :
    LET u == wRun[id].u
        r == runUnit(u, wRun[id].data, [local |-> local, act |-> actMap], clock)
    IN  /\ local' = r.st.local
        /\ actMap' = r.st.act
        /\ actN' = IF r.outcome = "updated" /\ u.kind # "override" THEN actN + 1
                   ELSE actN
        /\ actIn' = IF r.outcome = "updated" /\ u.kind # "override"
                      THEN [domain |-> u.domain, level |-> u.level,
                            timestamp |-> clock]
                      ELSE actIn
        /\ unit' = [id |-> id, kind |-> u.kind, domain |-> u.domain,
                    outcome |-> r.outcome, visitCount |-> r.visitCount,
                    ts |-> clock]
        /\ wRun' = [x \in DOMAIN wRun \ {id} |-> wRun[x]]
        /\ UNCHANGED <<workerRest, clock, wN, wTicks>>

\* togglePause of the dashboard: it writes the settings bucket itself.
TogglePause ==
  /\ local' = [local EXCEPT !.collectionEnabled = ~@]
  /\ UNCHANGED <<workerRest, actMap, actN, actIn, clock, wRun, wN, wTicks, unit>>

\* Time passes.
WorkerTick ==
  /\ wTicks < MaxWorkerTicks
  /\ \E d \in WorkerTicks : clock' = clock + d
  /\ wTicks' = wTicks + 1
  /\ UNCHANGED <<workerRest, actMap, actN, actIn, local, wRun, wN, unit>>

WorkerNext == WorkerStart \/ WorkerFinish \/ TogglePause \/ WorkerTick

SpecWorker == WorkerInit /\ [][WorkerNext]_vars

VisitsOf(stateMap, domain) ==
  IF domain \in DOMAIN stateMap THEN stateMap[domain].visit_count_total ELSE 0

C39_RiskAfterState ==
  [][(unit'.id # unit.id /\ unit'.outcome = "updated") =>
       /\ unit'.domain \in DOMAIN local'.risk
       /\ local'.risk[unit'.domain]
            = updateRiskForDomain(riskInputOf(local', actMap', unit'.domain))]_vars

\* A navigation took the RP domain past 200 visits and its risk record names
\* the frequent visitor; an account-level estimation is part of the score.
C39_Witness ==
  /\ unit.kind = "nav"
  /\ unit.outcome = "updated"
  /\ unit.visitCount = 201
  /\ RpDomain \in DOMAIN local.risk
  /\ local.risk[RpDomain].reasons = <<"level_account", "frequent_visitor">>


(***************************************************************************)
(* Part I, continued: numeric confidence and its bucket                    *)
(***************************************************************************)

\* C40: every estimation classify returns has a numeric confidence between
\* 0 and 1 (in hundredths, 0..100); its bucket is high exactly when the
\* number is at least 0.8, medium exactly when it is at least 0.5 and below
\* 0.8, and low otherwise; without the structural overlay the number is
\* 0.3, 0.5 or 0.8.
C40_ConfidenceAgreesWithBucket ==
  clsOut.level # "unset" =>
    /\ clsOut.numericConfidence \in 0..One
    /\ clsOut.confidence \in {"high", "medium", "low"}
    /\ (clsOut.confidence = "high") <=> (clsOut.numericConfidence >= 80)
    /\ (clsOut.confidence = "medium")
         <=> (clsOut.numericConfidence >= 50 /\ clsOut.numericConfidence < 80)
    /\ (~OAuthFired /\ ~SamlPresent) => clsOut.numericConfidence \in {30, 50, 80}

\* C40 witness: a structural estimation whose evidence adds up to exactly
\* 0.8 is in the high bucket.
C40_Witness ==
  /\ clsOut.level # "unset"
  /\ OAuthFired
  /\ clsOut.hasFlags
  /\ clsOut.numericConfidence = 80
  /\ clsOut.confidence = "high"

====
